---- MODULE Spec2Model ----
(***************************************************************************)
(* Room-state core of src/main.py (EnhancedMultilingualVRRoom): the        *)
(* participant registry, the gesture log, the transcript, the proximity    *)
(* check, the recording toggle, the snapshot and the deferred              *)
(* stop-speaking timer.                                                    *)
(*                                                                         *)
(* The room object is one record, `room`; every handler is an operator     *)
(* from the room before the call to the room after it, written statement   *)
(* by statement as a LET chain.  room.socketio holds the notifications     *)
(* the latest step emitted (self.socketio.emit), room.timers the pending   *)
(* threading.Timer callbacks, room.ret the value the latest call returned. *)
(*                                                                         *)
(* Numbers: coordinates are integers; a distance is kept in hundredths     *)
(* (Scale), so 3.0 is 300.  Timestamps (datetime.now()) are read from the  *)
(* logical clock `now`; every command is stamped one unit after the        *)
(* previous event.                                                         *)
(***************************************************************************)
EXTENDS Integers, Sequences, FiniteSets, TLC

VARIABLES
    room,       \* the EnhancedMultilingualVRRoom object
    now,        \* the clock: the time of the latest event
    call,       \* history: the latest step, with its arguments
    ncalls,     \* history: how many commands of each kind were issued
    joined,     \* history: the ids passed to join, in call order
    performed   \* history: the gestures that succeeded, with their performer

vars == <<room, now, call, ncalls, joined, performed>>

(* ------------------------------ bounds -------------------------------- *)

MaxOps == 5
MaxFlagOps == 4
MaxJoins == 3
MaxMoves == 2
MaxGestures == 3
MaxToggles == 2

(* ------------------------------ inputs -------------------------------- *)

Ids == {"a", "b"}

Pos(x, y, z, ry) ==
    [x |-> x, y |-> y, z |-> z, rotation_x |-> 0, rotation_y |-> ry, rotation_z |-> 0]

\* join payloads: the two participants of the spec's scenario, and a second
\* join under the id "a" with another name, language and position
JoinRequests ==
    { [user_id |-> "a", name |-> "Alice", lang |-> "en", x |-> -4, y |-> 0, z |-> 0],
      [user_id |-> "b", name |-> "Bob",   lang |-> "tr", x |-> 4,  y |-> 0, z |-> 0],
      [user_id |-> "a", name |-> "Ann",   lang |-> "tr", x |-> -2, y |-> 0, z |-> 2] }

\* move targets: from (-4,0,0) they lie at distance 5, 1, exactly 3 and sqrt(8)
MoveTargets ==
    { [x |-> 1, y |-> 0, z |-> 0], [x |-> -3, y |-> 0, z |-> 0],
      [x |-> -1, y |-> 0, z |-> 0], [x |-> -2, y |-> 0, z |-> 2] }

Rotations == {0}

\* "wave" has an entry in gesture_reactions, "dance" has none
Kinds == {"wave", "dance"}

Hands == {"right"}

Intensities == {1}

(* --------------------------- value helpers ---------------------------- *)

None == <<>>

Some(v) == <<v>>

Max(a, b) == IF a >= b THEN a ELSE b

\* s[-n:]
LastN(s, n) == IF Len(s) <= n THEN s ELSE SubSeq(s, Len(s) - n + 1, Len(s))

\* d[k] = v on a dict: a new key is added, an existing key is overwritten
Put(d, k, v) == [i \in (DOMAIN d) \cup {k} |-> IF i = k THEN v ELSE d[i]]

RECURSIVE ISqrtIn(_, _, _)
ISqrtIn(n, lo, hi) ==
    IF lo >= hi THEN lo
    ELSE LET mid == (lo + hi + 1) \div 2
         IN IF mid * mid <= n THEN ISqrtIn(n, mid, hi) ELSE ISqrtIn(n, lo, mid - 1)

\* floor of the square root (the search stays below the 32-bit root 46340)
ISqrt(n) == ISqrtIn(n, 0, IF n < 46340 THEN n ELSE 46340)

Scale == 100

(* ------------------------------ geometry ------------------------------ *)

SquaredDistance(p, q) ==
    (p.x - q.x) * (p.x - q.x) + (p.y - q.y) * (p.y - q.y) + (p.z - q.z) * (p.z - q.z)

\* the rotation about the vertical axis counted as a fourth coordinate
distance_to_rotated(p, q) ==
    ISqrt(Scale * Scale * (SquaredDistance(p, q)
                           + (p.rotation_y - q.rotation_y) * (p.rotation_y - q.rotation_y)))

\* VRPosition.distance_to, in hundredths (truncated)
distance_to(p, q) == ISqrt(Scale * Scale * SquaredDistance(p, q))

\* round(distance, 2), in hundredths (to nearest)
round2(p, q) == (ISqrt(4 * Scale * Scale * SquaredDistance(p, q)) + 1) \div 2

\* 3.0, in hundredths
PROXIMITY_THRESHOLD == 3 * Scale

proximity_chat_enabled == TRUE

\* "distance <= 3.0" in place of "distance < 3.0"
InProximity_inclusive(distance) == distance <= PROXIMITY_THRESHOLD /\ proximity_chat_enabled

\* the condition of the if in _check_proximity_interactions
InProximity(distance) == distance < PROXIMITY_THRESHOLD /\ proximity_chat_enabled

(* ------------------------------ tables -------------------------------- *)

\* Participant.__post_init__: flag_map.get(preferred_language, globe)
country_flag(lang) ==
    IF lang = "en" THEN "US" ELSE IF lang = "tr" THEN "TR" ELSE "globe"

vr_ui_translations ==
    [en |-> [welcome |-> "Welcome to VR space", gesture_detected |-> "Gesture detected",
             user_nearby |-> "User nearby", user_joined |-> "joined the meeting"],
     tr |-> [welcome |-> "VR alanina hos geldiniz", gesture_detected |-> "Hareket algilandi",
             user_nearby |-> "Yakinda kullanici", user_joined |-> "toplantiya katildi"]]

\* self.vr_ui_translations.get(lang, self.vr_ui_translations[Language.ENGLISH])[key]
Translate(lang, key) ==
    IF lang \in DOMAIN vr_ui_translations
    THEN vr_ui_translations[lang][key]
    ELSE vr_ui_translations["en"][key]

gesture_reactions ==
    [wave |-> [en |-> "waves hello", tr |-> "el sallar"],
     clap |-> [en |-> "claps", tr |-> "alkislar"]]

\* a kind without an entry in the table answered with a fixed text
Reaction_unknown(gesture_type, lang_code) ==
    IF gesture_type \in DOMAIN gesture_reactions
       /\ lang_code \in DOMAIN gesture_reactions[gesture_type]
    THEN gesture_reactions[gesture_type][lang_code]
    ELSE "unknown gesture"

\* self.gesture_reactions.get(gesture_type, {}).get(lang_code, gesture_type)
Reaction(gesture_type, lang_code) ==
    IF gesture_type \in DOMAIN gesture_reactions
       /\ lang_code \in DOMAIN gesture_reactions[gesture_type]
    THEN gesture_reactions[gesture_type][lang_code]
    ELSE gesture_type

\* a string is the sequence of its characters, so that "in" is a substring test
toxic_keywords ==
    { <<"h", "a", "t", "e">>, <<"s", "t", "u", "p", "i", "d">>, <<"i", "d", "i", "o", "t">>,
      <<"s", "h", "u", "t", " ", "u", "p">>, <<"u", "s", "e", "l", "e", "s", "s">>,
      <<"d", "u", "m", "b">> }

UpperCase ==
    <<"A", "B", "C", "D", "E", "F", "G", "H", "I", "J", "K", "L", "M",
      "N", "O", "P", "Q", "R", "S", "T", "U", "V", "W", "X", "Y", "Z">>

LowerCase ==
    <<"a", "b", "c", "d", "e", "f", "g", "h", "i", "j", "k", "l", "m",
      "n", "o", "p", "q", "r", "s", "t", "u", "v", "w", "x", "y", "z">>

LowerChar(c) ==
    IF \E i \in 1..Len(UpperCase) : UpperCase[i] = c
    THEN LowerCase[CHOOSE i \in 1..Len(UpperCase) : UpperCase[i] = c]
    ELSE c

\* the message compared as it is written, without .lower()
Lower_identity(message) == message

\* str.lower()
Lower(message) == [i \in 1..Len(message) |-> LowerChar(message[i])]

\* word in message
Contains(message, word) ==
    \E i \in 0..(Len(message) - Len(word)) :
        \A j \in 1..Len(word) : message[i + j] = word[j]

(* --------------------------- the room object -------------------------- *)

\* EnhancedMultilingualVRRoom.__init__, which sets both AI flags to True; they
\* are plain attributes of the room, so the constructor is written over them
NewRoom(moderation, note_taking) ==
    [participants |-> [i \in {} |-> 0],
     order |-> <<>>,
     gestures |-> <<>>,
     is_active |-> FALSE,
     start_time |-> None,
     ai_moderation_enabled |-> moderation,
     ai_note_taking_enabled |-> note_taking,
     video_recording_enabled |-> FALSE,
     session_transcript |-> <<>>,
     moderation_log |-> <<>>,
     recording_start_time |-> None,
     socketio |-> <<>>,
     timers |-> {},
     disk |-> <<>>,
     threads |-> <<>>,
     ret |-> "None"]

\* self.socketio.emit(event, data)
Emit(r, event, data) ==
    [r EXCEPT !.socketio = Append(@, [event |-> event, data |-> data])]

\* a handler starts with nothing emitted and nothing returned yet
Begin(r) == [r EXCEPT !.socketio = <<>>, !.ret = "None"]

Return(r, v) == [r EXCEPT !.ret = v]

\* dict.get(key, default)
Get(data, key, default) == IF key \in DOMAIN data THEN data[key] ELSE default

\* the denylist phrases the (lowered) message contains
ToxicHits(message) == {word \in toxic_keywords : Contains(message, word)}

\* every entry warned about, whatever its type and its message
check_moderation_all(r, entry, t) ==
    LET log_entry == [timestamp |-> t,
                      user_id |-> Get(entry.data, "user_id", "unknown"),
                      message |-> Lower(Get(entry.data, "message", <<>>)),
                      action |-> "warning",
                      reason |-> "Toxic language detected"]
        r1 == [r EXCEPT !.moderation_log = Append(@, log_entry)]
    IN Emit(r1, "moderation_alert", log_entry)

check_moderation(r, entry, t) ==
    IF entry.type = "chat"
    THEN LET message == Lower(Get(entry.data, "message", <<>>))
         IN IF ToxicHits(message) # {}
            THEN LET log_entry == [timestamp |-> t,
                                   user_id |-> Get(entry.data, "user_id", "unknown"),
                                   message |-> message,
                                   action |-> "warning",
                                   reason |-> "Toxic language detected"]
                     r1 == [r EXCEPT !.moderation_log = Append(@, log_entry)]
                 IN Emit(r1, "moderation_alert", log_entry)
            ELSE r
    ELSE r

\* "and" in place of "or" in the early return
LoggingEnabled_all(r) ==
    r.ai_note_taking_enabled /\ r.ai_moderation_enabled /\ r.video_recording_enabled

\* the early return of log_event_for_ai
LoggingEnabled(r) ==
    r.ai_note_taking_enabled \/ r.ai_moderation_enabled \/ r.video_recording_enabled

\* the entry moderated whether or not moderation is enabled
log_event_for_ai_moderated(r, event_type, data, t) ==
    IF ~LoggingEnabled(r) THEN r
    ELSE LET entry == [timestamp |-> t, type |-> event_type, data |-> data]
             r1 == [r EXCEPT !.session_transcript = Append(@, entry)]
         IN check_moderation(r1, entry, t)

log_event_for_ai(r, event_type, data, t) ==
    IF ~LoggingEnabled(r) THEN r
    ELSE LET entry == [timestamp |-> t, type |-> event_type, data |-> data]
             r1 == [r EXCEPT !.session_transcript = Append(@, entry)]
         IN IF r1.ai_moderation_enabled THEN check_moderation(r1, entry, t) ELSE r1

GestureView(g) ==
    [type |-> g.gesture_type, hand |-> g.hand, intensity |-> g.intensity,
     timestamp |-> g.timestamp]

ParticipantView(p) ==
    [user_id |-> p.user_id, name |-> p.name,
     position |-> [x |-> p.vr_position.x, y |-> p.vr_position.y, z |-> p.vr_position.z],
     language |-> p.preferred_language, flag |-> p.country_flag,
     avatar_id |-> p.avatar_id, is_speaking |-> p.is_speaking, is_muted |-> p.is_muted,
     join_time |-> p.join_time,
     recent_gestures |-> [i \in 1..Len(LastN(p.recent_gestures, 5)) |->
                              GestureView(LastN(p.recent_gestures, 5)[i])]]

\* the languages counted in place of the participants
participant_count_languages(r) ==
    Cardinality({r.participants[i].preferred_language : i \in DOMAIN r.participants})

participant_count(r) == Cardinality(DOMAIN r.participants)

\* self.gestures[:10] in place of self.gestures[-10:]
recent_gestures_view_first(r) ==
    [i \in 1..Len(SubSeq(r.gestures, 1, IF Len(r.gestures) < 10 THEN Len(r.gestures) ELSE 10))
        |-> GestureView(r.gestures[i])]

recent_gestures_view(r) ==
    [i \in 1..Len(LastN(r.gestures, 10)) |-> GestureView(LastN(r.gestures, 10)[i])]

get_room_state_for_web(r) ==
    [is_active |-> r.is_active,
     participant_count |-> participant_count(r),
     video_recording_enabled |-> r.video_recording_enabled,
     participants |-> [i \in 1..Len(r.order) |-> ParticipantView(r.participants[r.order[i]])],
     recent_gestures |-> recent_gestures_view(r),
     languages_in_use |-> {r.participants[i].preferred_language : i \in DOMAIN r.participants},
     start_time |-> r.start_time,
     moderation_count |-> Len(r.moderation_log),
     transcript_count |-> Len(r.session_transcript)]

(* ------------------------------ handlers ------------------------------ *)

\* Participant(...) as add_participant builds it, __post_init__ included
NewParticipant(r, user_id, name, preferred_language, x, y, z, t) ==
    [user_id |-> user_id, name |-> name, preferred_language |-> preferred_language,
     vr_position |-> Pos(x, y, z, 0), is_muted |-> FALSE, is_speaking |-> FALSE,
     join_time |-> t, avatar_id |-> Cardinality(DOMAIN r.participants) + 1,
     country_flag |-> country_flag(preferred_language), recent_gestures |-> <<>>]

\* the registration done only inside "if not self.is_active"
Register_when_inactive(r, user_id, participant) ==
    IF r.is_active THEN r
    ELSE [r EXCEPT !.participants = Put(@, user_id, participant),
                   !.order = Append(@, user_id)]

\* the registry replaced by one that holds the new participant alone
Register_alone(r, user_id, participant) ==
    [r EXCEPT !.participants = [i \in {user_id} |-> participant],
              !.order = <<user_id>>]

\* self.participants[user_id] = participant; a dict keeps the place of a key
\* it already holds
Register(r, user_id, participant) ==
    [r EXCEPT !.participants = Put(@, user_id, participant),
              !.order = IF user_id \in DOMAIN r.participants THEN @ ELSE Append(@, user_id)]

\* the two assignments without the "if not self.is_active" around them
Activate_always(r, t) == [r EXCEPT !.is_active = TRUE, !.start_time = Some(t)]

\* the join without the activation
Activate_never(r, t) == r

\* if not self.is_active: ...
Activate(r, t) ==
    IF ~r.is_active THEN [r EXCEPT !.is_active = TRUE, !.start_time = Some(t)] ELSE r

\* the room_update sent before the user_joined entry is logged
add_participant_emit_first(r, user_id, name, preferred_language, x, y, z, t) ==
    LET participant == NewParticipant(r, user_id, name, preferred_language, x, y, z, t)
        r1 == Register(r, user_id, participant)
        r2 == Activate(r1, t)
        r3 == Emit(r2, "room_update", get_room_state_for_web(r2))
        r4 == log_event_for_ai(r3, "user_joined",
                  [user_id |-> user_id, name |-> name, language |-> preferred_language], t)
        r5 == Emit(r4, "user_joined",
                  [name |-> name, language |-> preferred_language,
                   flag |-> participant.country_flag,
                   message |-> <<name, Translate(preferred_language, "user_joined")>>])
    IN r5

add_participant(r, user_id, name, preferred_language, x, y, z, t) ==
    LET participant == NewParticipant(r, user_id, name, preferred_language, x, y, z, t)
        r1 == Register(r, user_id, participant)
        r2 == Activate(r1, t)
        r3 == log_event_for_ai(r2, "user_joined",
                  [user_id |-> user_id, name |-> name, language |-> preferred_language], t)
        r4 == Emit(r3, "room_update", get_room_state_for_web(r3))
        r5 == Emit(r4, "user_joined",
                  [name |-> name, language |-> preferred_language,
                   flag |-> participant.country_flag,
                   message |-> <<name, Translate(preferred_language, "user_joined")>>])
    IN r5

\* a pair that already has a proximity entry in the transcript is skipped
raise_proximity_once(r, participant, other_participant, new_pos, distance, t) ==
    IF \E i \in 1..Len(r.session_transcript) :
           /\ r.session_transcript[i].type = "proximity"
           /\ r.session_transcript[i].data.user1 = participant.name
           /\ r.session_transcript[i].data.user2 = other_participant.name
    THEN r
    ELSE LET r1 == Emit(r, "proximity_alert",
                       [user1 |-> participant.name, user2 |-> other_participant.name,
                        distance |-> round2(new_pos, other_participant.vr_position)])
         IN log_event_for_ai(r1, "proximity",
                [user1 |-> participant.name, user2 |-> other_participant.name,
                 distance |-> distance], t)

\* the body of the if: the alert, then the transcript entry
raise_proximity(r, participant, other_participant, new_pos, distance, t) ==
    LET r1 == Emit(r, "proximity_alert",
                  [user1 |-> participant.name, user2 |-> other_participant.name,
                   distance |-> round2(new_pos, other_participant.vr_position)])
    IN log_event_for_ai(r1, "proximity",
           [user1 |-> participant.name, user2 |-> other_participant.name,
            distance |-> distance], t)

\* the body of the for loop of _check_proximity_interactions, for one other_id
proximity_step(r, user_id, other_id, new_pos, t) ==
    LET participant == r.participants[user_id]
        other_participant == r.participants[other_id]
        distance == distance_to(new_pos, other_participant.vr_position)
    IN IF other_id = user_id THEN r
       ELSE IF InProximity(distance)
       THEN raise_proximity(r, participant, other_participant, new_pos, distance, t)
       ELSE r

\* for other_id, other_participant in self.participants.items(), from the
\* i-th key on
RECURSIVE proximity_loop(_, _, _, _, _)
proximity_loop(r, user_id, new_pos, i, t) ==
    IF i > Len(r.order) THEN r
    ELSE proximity_loop(proximity_step(r, user_id, r.order[i], new_pos, t),
                        user_id, new_pos, i + 1, t)

\* the loop run from the last key of the dict to the first
RECURSIVE proximity_loop_down(_, _, _, _, _)
proximity_loop_down(r, user_id, new_pos, i, t) ==
    IF i < 1 THEN r
    ELSE proximity_loop_down(proximity_step(r, user_id, r.order[i], new_pos, t),
                             user_id, new_pos, i - 1, t)

check_proximity_interactions_reversed(r, user_id, old_pos, new_pos, t) ==
    proximity_loop_down(r, user_id, new_pos, Len(r.order), t)

check_proximity_interactions(r, user_id, old_pos, new_pos, t) ==
    proximity_loop(r, user_id, new_pos, 1, t)

\* the position_update entry logged before the membership test
move_unknown_logged(r, user_id, x, y, z, t) ==
    Return(log_event_for_ai(r, "position_update",
               [user_id |-> user_id, position |-> [x |-> x, y |-> y, z |-> z],
                rotation |-> [x |-> 0, y |-> 0, z |-> 0]], t), "False")

\* if user_id not in self.participants: return False
move_unknown(r, user_id, x, y, z, t) == Return(r, "False")

\* a move that also ends the mover's speaking
update_participant_position_quiet(r, user_id, x, y, z, rotation_y, t) ==
    IF user_id \notin DOMAIN r.participants THEN move_unknown(r, user_id, x, y, z, t)
    ELSE LET old_pos == r.participants[user_id].vr_position
             new_pos == Pos(x, y, z, rotation_y)
             r1 == [r EXCEPT !.participants[user_id].vr_position = new_pos,
                             !.participants[user_id].is_speaking = FALSE]
             r2 == log_event_for_ai(r1, "position_update",
                       [user_id |-> user_id, position |-> [x |-> x, y |-> y, z |-> z],
                        rotation |-> [x |-> 0, y |-> rotation_y, z |-> 0]], t)
             r3 == check_proximity_interactions(r2, user_id, old_pos, new_pos, t)
             r4 == Emit(r3, "position_update",
                       [user_id |-> user_id, position |-> [x |-> x, y |-> y, z |-> z],
                        rotation |-> [x |-> 0, y |-> rotation_y, z |-> 0]])
         IN Return(r4, "True")

update_participant_position(r, user_id, x, y, z, rotation_y, t) ==
    IF user_id \notin DOMAIN r.participants THEN move_unknown(r, user_id, x, y, z, t)
    ELSE LET old_pos == r.participants[user_id].vr_position
             new_pos == Pos(x, y, z, rotation_y)
             r1 == [r EXCEPT !.participants[user_id].vr_position = new_pos]
             r2 == log_event_for_ai(r1, "position_update",
                       [user_id |-> user_id, position |-> [x |-> x, y |-> y, z |-> z],
                        rotation |-> [x |-> 0, y |-> rotation_y, z |-> 0]], t)
             r3 == check_proximity_interactions(r2, user_id, old_pos, new_pos, t)
             r4 == Emit(r3, "position_update",
                       [user_id |-> user_id, position |-> [x |-> x, y |-> y, z |-> z],
                        rotation |-> [x |-> 0, y |-> rotation_y, z |-> 0]])
         IN Return(r4, "True")

GESTURE_DURATION == 1

STOP_SPEAKING_DELAY == 2

PARTICIPANT_GESTURE_CAP == 5

\* the gesture put at the head of the participant's history
RecordGesture_front(recent_gestures, gesture) ==
    LastN(<<gesture>> \o recent_gestures, PARTICIPANT_GESTURE_CAP)

\* participant.recent_gestures.append(gesture), then [-5:]
RecordGesture(recent_gestures, gesture) ==
    LastN(Append(recent_gestures, gesture), PARTICIPANT_GESTURE_CAP)

\* the timers the participant already has cancelled when a new one is started
StartTimer_replace(r, participant, t) ==
    [r EXCEPT !.timers = {tm \in @ : tm.user_id # participant.user_id}
                            \cup {[user_id |-> participant.user_id,
                                   join_time |-> participant.join_time,
                                   due |-> t + 2]}]

\* the gesture handled without its timer being started
StartTimer_never(r, participant, t) == r

\* threading.Timer(2.0, stop_speaking).start(); the closure holds the
\* Participant object, which the model names by its user_id and join_time
StartTimer(r, participant, t) ==
    [r EXCEPT !.timers = @ \cup {[user_id |-> participant.user_id,
                                  join_time |-> participant.join_time,
                                  due |-> t + STOP_SPEAKING_DELAY]}]

\* 5.0, in hundredths
GESTURE_VISIBLE_RANGE == 5 * Scale

\* the other participant told of the gesture by a notification of their own
see_gesture_notified(r, participant, other_participant) ==
    Emit(r, "gesture_seen", [user |-> participant.name, seen_by |-> other_participant.name])

\* print(... sees the gesture): a line on the console, nothing of the room
see_gesture(r, participant, other_participant) == r

\* the body of the for loop that ends perform_gesture, for one other_id
gesture_broadcast_step(r, user_id, other_id) ==
    LET participant == r.participants[user_id]
        other_participant == r.participants[other_id]
        distance == distance_to(participant.vr_position, other_participant.vr_position)
    IN IF other_id # user_id
       THEN IF distance < GESTURE_VISIBLE_RANGE
            THEN see_gesture(r, participant, other_participant)
            ELSE r
       ELSE r

\* for other_id, other_participant in self.participants.items(), from the
\* i-th key on
RECURSIVE gesture_broadcast(_, _, _)
gesture_broadcast(r, user_id, i) ==
    IF i > Len(r.order) THEN r
    ELSE gesture_broadcast(gesture_broadcast_step(r, user_id, r.order[i]), user_id, i + 1)

\* the gesture appended to self.gestures before the membership test
gesture_unknown_logged(r, user_id, gesture_type, hand, intensity, t) ==
    Return([r EXCEPT !.gestures = Append(@, [gesture_type |-> gesture_type, hand |-> hand,
                                             intensity |-> intensity, duration |-> 1,
                                             timestamp |-> t])], "False")

\* if user_id not in self.participants: return False
gesture_unknown(r, user_id, gesture_type, hand, intensity, t) == Return(r, "False")

perform_gesture(r, user_id, gesture_type, hand, intensity, t) ==
    IF user_id \notin DOMAIN r.participants
    THEN gesture_unknown(r, user_id, gesture_type, hand, intensity, t)
    ELSE LET participant == r.participants[user_id]
             gesture == [gesture_type |-> gesture_type, hand |-> hand,
                         intensity |-> intensity, duration |-> GESTURE_DURATION,
                         timestamp |-> t]
             r1 == [r EXCEPT !.gestures = Append(@, gesture)]
             r2 == [r1 EXCEPT !.participants[user_id].recent_gestures =
                                  RecordGesture(@, gesture)]
             r3 == [r2 EXCEPT !.participants[user_id].is_speaking = TRUE]
             r4 == Emit(r3, "speaking_update", [user_id |-> user_id, is_speaking |-> TRUE])
             r5 == StartTimer(r4, participant, t)
             lang_code == participant.preferred_language
             reaction == Reaction(gesture_type, lang_code)
             r6 == log_event_for_ai(r5, "gesture",
                       [user_id |-> user_id, user |-> participant.name,
                        gesture |-> gesture_type, reaction |-> reaction,
                        language |-> lang_code], t)
             r7 == Emit(r6, "gesture_performed",
                       [user_id |-> user_id, user |-> participant.name,
                        gesture |-> gesture_type, reaction |-> reaction,
                        flag |-> participant.country_flag, language |-> lang_code,
                        timestamp |-> gesture.timestamp])
             r7b == gesture_broadcast(r7, user_id, 1)
             r8 == Emit(r7b, "room_update", get_room_state_for_web(r7b))
         IN Return(r8, "True")

\* the callback without its notifications
stop_speaking_silent(r, timer) ==
    LET r1 == IF timer.user_id \in DOMAIN r.participants
                 /\ r.participants[timer.user_id].join_time = timer.join_time
              THEN [r EXCEPT !.participants[timer.user_id].is_speaking = FALSE]
              ELSE r
    IN [r1 EXCEPT !.timers = @ \ {timer}]

\* the closure stop_speaking of perform_gesture: it writes the Participant
\* object it captured, which is the registered one unless the id was
\* registered again since
stop_speaking(r, timer) ==
    LET r1 == IF timer.user_id \in DOMAIN r.participants
                 /\ r.participants[timer.user_id].join_time = timer.join_time
              THEN [r EXCEPT !.participants[timer.user_id].is_speaking = FALSE]
              ELSE r
        r2 == [r1 EXCEPT !.timers = @ \ {timer}]
        r3 == Emit(r2, "speaking_update", [user_id |-> timer.user_id, is_speaking |-> FALSE])
    IN Emit(r3, "room_update", get_room_state_for_web(r3))

\* the transcript replaced by the info entry whether or not it was empty
seed_transcript_always(transcript, t) ==
    <<[timestamp |-> t, type |-> "info", data |-> [message |-> "Recording started"]]>>

\* if not self.session_transcript: self.session_transcript = [info entry]
seed_transcript(transcript, t) ==
    IF transcript = <<>>
    THEN <<[timestamp |-> t, type |-> "info", data |-> [message |-> "Recording started"]]>>
    ELSE transcript

\* the socket handler handle_toggle_recording
handle_toggle_recording(r, t) ==
    LET r1 == [r EXCEPT !.video_recording_enabled = ~@]
        msg == IF r1.video_recording_enabled THEN "Video recording STARTED"
               ELSE "Video recording STOPPED"
        r2 == IF r1.video_recording_enabled
              THEN [r1 EXCEPT !.recording_start_time = Some(t),
                              !.session_transcript = seed_transcript(@, t)]
              ELSE r1
        r3 == Emit(r2, "recording_update",
                  [is_recording |-> r2.video_recording_enabled, message |-> msg])
        r4 == log_event_for_ai(r3, "recording_toggle",
                  [state |-> r3.video_recording_enabled, message |-> msg], t)
    IN Emit(r4, "room_update", get_room_state_for_web(r4))

\* "key_moments": f"{user} performed '{gesture}'"
KeyMoment(entry) == <<entry.data.user, "performed", entry.data.gesture>>

IsGestureEntry(entry) == entry.type = "gesture"

\* gestures[:10] in place of gestures[-10:]
notes_window_first(gestures) ==
    SubSeq(gestures, 1, IF Len(gestures) < 10 THEN Len(gestures) ELSE 10)

\* gestures[-10:]
notes_window(gestures) == LastN(gestures, 10)

\* the summary and the action items are fixed text around the names
generate_ai_notes(r, t) ==
    LET participants == [i \in 1..Len(r.order) |-> r.participants[r.order[i]].name]
        gestures == SelectSeq(r.session_transcript, IsGestureEntry)
        window == notes_window(gestures)
    IN [summary |-> participants,
        key_moments |-> [i \in 1..Len(window) |-> KeyMoment(window[i])],
        participant_count |-> Len(participants),
        gesture_count |-> Len(gestures),
        duration |-> IF r.start_time # None THEN Some(t - r.start_time[1]) ELSE None]

\* the notes request itself written into the transcript
handle_request_ai_notes_logged(r, t) ==
    Emit(log_event_for_ai(r, "ai_notes", [message |-> "AI notes requested"], t),
         "ai_notes_response", generate_ai_notes(r, t))

\* the socket handler handle_request_ai_notes
handle_request_ai_notes(r, t) == Emit(r, "ai_notes_response", generate_ai_notes(r, t))

\* the route /api/ai_notes
get_ai_notes(r, t) == Return(r, generate_ai_notes(r, t))

\* the route /api/room_state
get_room_state(r) == Return(r, get_room_state_for_web(r))

\* the file name has the resolution of the clock
RecordingFile(t) == <<"recording", t>>

\* the transcript written as it is, without the fallback
saved_transcript_raw(r, t) == r.session_transcript

\* self.session_transcript or [{... "No events recorded yet"}]
saved_transcript(r, t) ==
    IF r.session_transcript = <<>>
    THEN <<[timestamp |-> t, type |-> "info",
            data |-> [message |-> "No events recorded yet"]]>>
    ELSE r.session_transcript

recording_data(r, t) ==
    [start_time |-> r.start_time,
     end_time |-> t,
     participants |-> [i \in 1..Len(r.order) |-> r.participants[r.order[i]].name],
     transcript |-> saved_transcript(r, t),
     moderation_log |-> r.moderation_log]

\* with open(filename, 'w') ... json.dump(recording_data, f)
WriteRecording(r, t) == [r EXCEPT !.disk = Put(@, RecordingFile(t), recording_data(r, t))]

SaveResponse(t) == [message |-> "Recording saved", filename |-> RecordingFile(t)]

\* the route /api/save_recording
save_recording(r, t) == Return(WriteRecording(r, t), SaveResponse(t))

\* the socket handler handle_save_recording
handle_save_recording(r, t) == Emit(WriteRecording(r, t), "save_recording_response", SaveResponse(t))

\* an exception leaves the handler: nothing is returned and nothing more is
\* emitted
Raise(r, exception) == [r EXCEPT !.ret = exception]

\* open() or json.dump() raises OSError; when it is json.dump the file has
\* been created and holds a part of the data
FailedWrite(r, t, stage) ==
    IF stage = "open" THEN r
    ELSE [r EXCEPT !.disk = Put(@, RecordingFile(t), [truncated |-> TRUE])]

\* the route /api/save_recording when the write fails: no try around it
save_recording_failing(r, t, stage) == Raise(FailedWrite(r, t, stage), "OSError")

\* the socket handler handle_save_recording when the write fails: the emit
\* of save_recording_response is not reached
handle_save_recording_failing(r, t, stage) == Raise(FailedWrite(r, t, stage), "OSError")

(* ------------------- the handlers, statement by statement -------------- *)

\* The coroutines add_participant, update_participant_position and
\* perform_gesture run on the event loop ("loop"), the handlers of the web
\* server on a thread of the server ("web"), a stop_speaking callback on the
\* thread of its threading.Timer ("timer"). No lock is taken anywhere, so
\* the statements of the three interleave. room.threads holds, for each
\* thread that is inside a handler, the frame of the handler: its name, the
\* statement it is at, its arguments and its local variables.

StartThread(r, thread, frame) == [r EXCEPT !.threads = Put(@, thread, frame)]

At(r, thread, pc) == [r EXCEPT !.threads[thread].pc = pc]

FinishThread(r, thread) ==
    [r EXCEPT !.threads = [k \in (DOMAIN r.threads) \ {thread} |-> r.threads[k]]]

\* add_participant from the statement its frame is at
add_participant_at(r, f) ==
    LET q == f.q
    IN CASE f.pc = "register" ->
               At(Register(r, q.user_id,
                           NewParticipant(r, q.user_id, q.name, q.lang, q.x, q.y, q.z, f.t)),
                  "loop", "activate")
         [] f.pc = "activate" -> At(Activate(r, f.t), "loop", "log")
         [] f.pc = "log" ->
               At(log_event_for_ai(r, "user_joined",
                      [user_id |-> q.user_id, name |-> q.name, language |-> q.lang], f.t),
                  "loop", "emit")
         [] f.pc = "emit" ->
               LET r1 == Emit(r, "room_update", get_room_state_for_web(r))
                   r2 == Emit(r1, "user_joined",
                             [name |-> q.name, language |-> q.lang,
                              flag |-> country_flag(q.lang),
                              message |-> <<q.name, Translate(q.lang, "user_joined")>>])
               IN FinishThread(r2, "loop")

\* update_participant_position after its membership test
update_participant_position_at(r, f) ==
    LET new_pos == Pos(f.x, f.y, f.z, f.rotation_y)
        payload == [user_id |-> f.user_id, position |-> [x |-> f.x, y |-> f.y, z |-> f.z],
                    rotation |-> [x |-> 0, y |-> f.rotation_y, z |-> 0]]
    IN CASE f.pc = "assign" ->
               At([r EXCEPT !.participants[f.user_id].vr_position = new_pos], "loop", "log")
         [] f.pc = "log" -> At(log_event_for_ai(r, "position_update", payload, f.t),
                               "loop", "proximity")
         [] f.pc = "proximity" ->
               At(check_proximity_interactions(r, f.user_id, new_pos, new_pos, f.t),
                  "loop", "emit")
         [] f.pc = "emit" ->
               FinishThread(Return(Emit(r, "position_update", payload), "True"), "loop")

\* perform_gesture after its membership test
perform_gesture_at(r, f) ==
    LET participant == r.participants[f.user_id]
        gesture == [gesture_type |-> f.gesture_type, hand |-> f.hand,
                    intensity |-> f.intensity, duration |-> GESTURE_DURATION,
                    timestamp |-> f.t]
        lang_code == participant.preferred_language
        reaction == Reaction(f.gesture_type, lang_code)
    IN CASE f.pc = "append" ->
               At([r EXCEPT !.gestures = Append(@, gesture)], "loop", "recent")
         [] f.pc = "recent" ->
               At([r EXCEPT !.participants[f.user_id].recent_gestures = Append(@, gesture)],
                  "loop", "trim")
         [] f.pc = "trim" ->
               At([r EXCEPT !.participants[f.user_id].recent_gestures =
                                LastN(@, PARTICIPANT_GESTURE_CAP)],
                  "loop", "speak")
         [] f.pc = "speak" ->
               At(Emit([r EXCEPT !.participants[f.user_id].is_speaking = TRUE],
                       "speaking_update", [user_id |-> f.user_id, is_speaking |-> TRUE]),
                  "loop", "timer")
         [] f.pc = "timer" -> At(StartTimer(r, participant, f.t), "loop", "log")
         [] f.pc = "log" ->
               At(log_event_for_ai(r, "gesture",
                      [user_id |-> f.user_id, user |-> participant.name,
                       gesture |-> f.gesture_type, reaction |-> reaction,
                       language |-> lang_code], f.t),
                  "loop", "emit")
         [] f.pc = "emit" ->
               LET r1 == Emit(r, "gesture_performed",
                             [user_id |-> f.user_id, user |-> participant.name,
                              gesture |-> f.gesture_type, reaction |-> reaction,
                              flag |-> participant.country_flag, language |-> lang_code,
                              timestamp |-> f.t])
                   r1b == gesture_broadcast(r1, f.user_id, 1)
                   r2 == Emit(r1b, "room_update", get_room_state_for_web(r1b))
               IN FinishThread(Return(r2, "True"), "loop")

\* handle_toggle_recording from the statement its frame is at
handle_toggle_recording_at(r, f) ==
    LET msg == IF r.video_recording_enabled THEN "Video recording STARTED"
               ELSE "Video recording STOPPED"
    IN CASE f.pc = "flip" ->
               At([r EXCEPT !.video_recording_enabled = ~@], "web",
                  IF ~r.video_recording_enabled THEN "start" ELSE "notify")
         [] f.pc = "start" -> At([r EXCEPT !.recording_start_time = Some(f.t)], "web", "test")
         [] f.pc = "test" ->
               At(r, "web", IF r.session_transcript = <<>> THEN "seed" ELSE "notify")
         [] f.pc = "seed" ->
               At([r EXCEPT !.session_transcript = seed_transcript(<<>>, f.t)], "web", "notify")
         [] f.pc = "notify" ->
               At(Emit(r, "recording_update",
                       [is_recording |-> r.video_recording_enabled, message |-> msg]),
                  "web", "log")
         [] f.pc = "log" ->
               At(log_event_for_ai(r, "recording_toggle",
                      [state |-> r.video_recording_enabled, message |-> msg], f.t),
                  "web", "emit")
         [] f.pc = "emit" ->
               FinishThread(Emit(r, "room_update", get_room_state_for_web(r)), "web")

\* handle_save_recording: the entries of recording_data are evaluated one
\* after the other, then the file is written
handle_save_recording_at(r, f) ==
    CASE f.pc = "participants" ->
             [r EXCEPT !.threads["web"] =
                 [f EXCEPT !.pc = "transcript", !.start_time = r.start_time,
                           !.participants = [i \in 1..Len(r.order) |->
                                                r.participants[r.order[i]].name]]]
      [] f.pc = "transcript" ->
             [r EXCEPT !.threads["web"] =
                 [f EXCEPT !.pc = "moderation_log", !.transcript = saved_transcript(r, f.t)]]
      [] f.pc = "moderation_log" ->
             [r EXCEPT !.threads["web"] =
                 [f EXCEPT !.pc = "write", !.moderation_log = r.moderation_log]]
      [] f.pc = "write" ->
             LET data == [start_time |-> f.start_time, end_time |-> f.t,
                          participants |-> f.participants, transcript |-> f.transcript,
                          moderation_log |-> f.moderation_log]
                 r1 == [r EXCEPT !.disk = Put(@, RecordingFile(f.t), data)]
             IN FinishThread(Emit(r1, "save_recording_response", SaveResponse(f.t)), "web")

\* the closure stop_speaking from the statement its frame is at
stop_speaking_at(r, f) ==
    CASE f.pc = "clear" ->
             At(IF f.timer.user_id \in DOMAIN r.participants
                   /\ r.participants[f.timer.user_id].join_time = f.timer.join_time
                THEN [r EXCEPT !.participants[f.timer.user_id].is_speaking = FALSE]
                ELSE r,
                "timer", "emit")
      [] f.pc = "emit" ->
             LET r1 == Emit(r, "speaking_update",
                           [user_id |-> f.timer.user_id, is_speaking |-> FALSE])
             IN FinishThread(Emit(r1, "room_update", get_room_state_for_web(r1)), "timer")

\* the next statement of the handler the thread is in
StepOf(r, thread) ==
    LET f == r.threads[thread]
    IN CASE f.op = "join" -> add_participant_at(r, f)
         [] f.op = "move" -> update_participant_position_at(r, f)
         [] f.op = "gesture" -> perform_gesture_at(r, f)
         [] f.op = "toggle" -> handle_toggle_recording_at(r, f)
         [] f.op = "save" -> handle_save_recording_at(r, f)
         [] f.op = "stop_speaking" -> stop_speaking_at(r, f)

(* ------------------------------ actions ------------------------------- *)

\* a command is stamped one unit after the latest event, and a timer that
\* was due before that instant has fired by then
CommandTime == now + 1

TimersOnTime == \A tm \in room.timers : tm.due >= CommandTime

Count(op) == [ncalls EXCEPT ![op] = @ + 1]

\* the room as the constructor leaves it, given the values of the AI flags
InitWith(moderation, note_taking) ==
    /\ room = NewRoom(moderation, note_taking)
    /\ now = 0
    /\ call = [op |-> "init", user_id |-> "", arg |-> <<>>]
    /\ ncalls = [join |-> 0, move |-> 0, gesture |-> 0, toggle |-> 0, log |-> 0, save |-> 0]
    /\ joined = <<>>
    /\ performed = <<>>

\* the program as it stands: ai_moderation_enabled = ai_note_taking_enabled = True
Init == InitWith(TRUE, TRUE)

\* a room whose host has set the AI flags (as the demo sets
\* video_recording_enabled) before the session starts: the setting of the
\* statements that range over the values of the flags
InitFlags == \E moderation \in BOOLEAN, note_taking \in BOOLEAN : InitWith(moderation, note_taking)

\* a join that ends with the proximity check a move runs
Join_checked(q) ==
    /\ TimersOnTime
    /\ room' = check_proximity_interactions(
                   add_participant(Begin(room), q.user_id, q.name, q.lang, q.x, q.y, q.z,
                                   CommandTime),
                   q.user_id, Pos(q.x, q.y, q.z, 0), Pos(q.x, q.y, q.z, 0), CommandTime)
    /\ now' = CommandTime
    /\ call' = [op |-> "join", user_id |-> q.user_id, arg |-> q]
    /\ ncalls' = Count("join")
    /\ joined' = Append(joined, q.user_id)
    /\ UNCHANGED performed

Join(q) ==
    /\ TimersOnTime
    /\ room' = add_participant(Begin(room), q.user_id, q.name, q.lang, q.x, q.y, q.z,
                               CommandTime)
    /\ now' = CommandTime
    /\ call' = [op |-> "join", user_id |-> q.user_id, arg |-> q]
    /\ ncalls' = Count("join")
    /\ joined' = Append(joined, q.user_id)
    /\ UNCHANGED performed

Move(user_id, target, rotation_y) ==
    /\ TimersOnTime
    /\ room' = update_participant_position(Begin(room), user_id, target.x, target.y,
                                           target.z, rotation_y, CommandTime)
    /\ now' = CommandTime
    /\ call' = [op |-> "move", user_id |-> user_id,
                arg |-> Pos(target.x, target.y, target.z, rotation_y)]
    /\ ncalls' = Count("move")
    /\ UNCHANGED <<joined, performed>>

Gesture(user_id, gesture_type, hand, intensity) ==
    /\ TimersOnTime
    /\ room' = perform_gesture(Begin(room), user_id, gesture_type, hand, intensity,
                               CommandTime)
    /\ now' = CommandTime
    /\ call' = [op |-> "gesture", user_id |-> user_id,
                arg |-> [gesture_type |-> gesture_type, hand |-> hand,
                         intensity |-> intensity]]
    /\ ncalls' = Count("gesture")
    /\ performed' = IF room'.ret = "True"
                    THEN Append(performed, [user_id |-> user_id, type |-> gesture_type,
                                            hand |-> hand, intensity |-> intensity,
                                            timestamp |-> CommandTime])
                    ELSE performed
    /\ UNCHANGED joined

ToggleRecording ==
    /\ TimersOnTime
    /\ room' = handle_toggle_recording(Begin(room), CommandTime)
    /\ now' = CommandTime
    /\ call' = [op |-> "toggle", user_id |-> "", arg |-> <<>>]
    /\ ncalls' = Count("toggle")
    /\ UNCHANGED <<joined, performed>>

\* a pending timer fires, at its due time or at the present instant if that
\* is later
StopSpeaking(timer) ==
    /\ timer \in room.timers
    /\ \A tm \in room.timers : tm.due >= timer.due
    /\ room' = stop_speaking(Begin(room), timer)
    /\ now' = Max(now, timer.due)
    /\ call' = [op |-> "stop_speaking", user_id |-> timer.user_id, arg |-> timer]
    /\ UNCHANGED <<ncalls, joined, performed>>

\* log_event_for_ai called with an event of the host application
LogEvent(event) ==
    /\ TimersOnTime
    /\ room' = log_event_for_ai(Begin(room), event.type, event.data, CommandTime)
    /\ now' = CommandTime
    /\ call' = [op |-> "log", user_id |-> "", arg |-> event]
    /\ ncalls' = Count("log")
    /\ UNCHANGED <<joined, performed>>

\* a read happens at the instant of the latest event or at the next one; it
\* is no event of the room, so the clock of the room stays where it is
ReadTimes == {t \in {now, CommandTime} : t = CommandTime => TimersOnTime}

Paths == {"route", "socket"}

\* the notes are asked for through /api/ai_notes or the request_ai_notes event
Notes(path, t) ==
    /\ room' = IF path = "route" THEN get_ai_notes(Begin(room), t)
                ELSE handle_request_ai_notes(Begin(room), t)
    /\ call' = [op |-> "notes", user_id |-> "", arg |-> [path |-> path, t |-> t]]
    /\ UNCHANGED <<now, ncalls, joined, performed>>

\* the snapshot is asked for through /api/room_state
Snapshot ==
    /\ room' = get_room_state(Begin(room))
    /\ call' = [op |-> "snapshot", user_id |-> "", arg |-> <<>>]
    /\ UNCHANGED <<now, ncalls, joined, performed>>

\* the recording is saved through /api/save_recording or the save_recording event
Save(path, t) ==
    /\ room' = IF path = "route" THEN save_recording(Begin(room), t)
                ELSE handle_save_recording(Begin(room), t)
    /\ call' = [op |-> "save", user_id |-> "", arg |-> [path |-> path, t |-> t]]
    /\ ncalls' = Count("save")
    /\ UNCHANGED <<now, joined, performed>>

\* p.distance_to(q) evaluated on two positions
Measure(p, q) ==
    /\ room' = Return(Begin(room), distance_to(p, q))
    /\ call' = [op |-> "distance", user_id |-> "", arg |-> <<p, q>>]
    /\ UNCHANGED <<now, ncalls, joined, performed>>

\* a save whose write fails
SaveFails(path, t, stage) ==
    /\ room' = IF path = "route" THEN save_recording_failing(Begin(room), t, stage)
                ELSE handle_save_recording_failing(Begin(room), t, stage)
    /\ call' = [op |-> "save_failed", user_id |-> "",
                arg |-> [path |-> path, t |-> t, stage |-> stage]]
    /\ ncalls' = Count("save")
    /\ UNCHANGED <<now, joined, performed>>

\* a handler entered while another thread is inside a handler is entered at
\* the same instant of the clock; otherwise it is the next event
EnterTime == IF DOMAIN room.threads = {} THEN CommandTime ELSE now

EnterOnTime == DOMAIN room.threads = {} => TimersOnTime

\* a thread enters a handler: the arguments are bound, nothing is done yet
Enter(thread, op, frame) ==
    /\ thread \notin DOMAIN room.threads
    /\ EnterOnTime
    /\ room' = StartThread(Begin(room), thread, frame)
    /\ now' = EnterTime
    /\ call' = [op |-> "enter", user_id |-> thread, arg |-> frame]
    /\ ncalls' = Count(op)
    /\ UNCHANGED performed

EnterJoin(q) ==
    /\ Enter("loop", "join", [op |-> "join", pc |-> "register", q |-> q, t |-> EnterTime])
    /\ joined' = Append(joined, q.user_id)

\* the membership test of update_participant_position, and the return of
\* False when it fails
EnterMove(user_id, target, rotation_y) ==
    /\ UNCHANGED joined
    /\ IF user_id \in DOMAIN room.participants
       THEN Enter("loop", "move",
                  [op |-> "move", pc |-> "assign", user_id |-> user_id, x |-> target.x,
                   y |-> target.y, z |-> target.z, rotation_y |-> rotation_y,
                   t |-> EnterTime])
       ELSE /\ "loop" \notin DOMAIN room.threads
            /\ EnterOnTime
            /\ room' = move_unknown(Begin(room), user_id, target.x, target.y, target.z,
                                    EnterTime)
            /\ now' = EnterTime
            /\ call' = [op |-> "move", user_id |-> user_id,
                        arg |-> Pos(target.x, target.y, target.z, rotation_y)]
            /\ ncalls' = Count("move")
            /\ UNCHANGED performed

\* the membership test of perform_gesture, and the return of False when it
\* fails
EnterGesture(user_id, gesture_type, hand, intensity) ==
    /\ UNCHANGED joined
    /\ IF user_id \in DOMAIN room.participants
       THEN Enter("loop", "gesture",
                  [op |-> "gesture", pc |-> "append", user_id |-> user_id,
                   gesture_type |-> gesture_type, hand |-> hand, intensity |-> intensity,
                   t |-> EnterTime])
       ELSE /\ "loop" \notin DOMAIN room.threads
            /\ EnterOnTime
            /\ room' = gesture_unknown(Begin(room), user_id, gesture_type, hand, intensity,
                                       EnterTime)
            /\ now' = EnterTime
            /\ call' = [op |-> "gesture", user_id |-> user_id,
                        arg |-> [gesture_type |-> gesture_type, hand |-> hand,
                                 intensity |-> intensity]]
            /\ ncalls' = Count("gesture")
            /\ UNCHANGED performed

EnterToggle ==
    /\ Enter("web", "toggle", [op |-> "toggle", pc |-> "flip", t |-> EnterTime])
    /\ UNCHANGED joined

\* a save is stamped with the instant of the latest event
EnterSave ==
    LET frame == [op |-> "save", pc |-> "participants", t |-> now, start_time |-> None,
                  participants |-> <<>>, transcript |-> <<>>, moderation_log |-> <<>>]
    IN /\ "web" \notin DOMAIN room.threads
       /\ room' = StartThread(Begin(room), "web", frame)
       /\ call' = [op |-> "enter", user_id |-> "web", arg |-> frame]
       /\ ncalls' = Count("save")
       /\ UNCHANGED <<now, joined, performed>>

\* the thread of a timer starts its callback: when the timer is due, or, when
\* no handler is running, as the next event
EnterStopSpeaking(timer) ==
    LET frame == [op |-> "stop_speaking", pc |-> "clear", timer |-> timer]
    IN /\ timer \in room.timers
       /\ \A tm \in room.timers : tm.due >= timer.due
       /\ "timer" \notin DOMAIN room.threads
       /\ timer.due <= now \/ DOMAIN room.threads = {}
       /\ room' = StartThread([Begin(room) EXCEPT !.timers = @ \ {timer}], "timer", frame)
       /\ now' = Max(now, timer.due)
       /\ call' = [op |-> "enter", user_id |-> "timer", arg |-> frame]
       /\ UNCHANGED <<ncalls, joined, performed>>

\* a thread executes the statement it is at
Step(thread) ==
    LET f == room.threads[thread]
    IN /\ thread \in DOMAIN room.threads
       /\ room' = StepOf(Begin(room), thread)
       /\ call' = [op |-> "step", user_id |-> thread, arg |-> f]
       /\ performed' = IF f.op = "gesture" /\ f.pc = "emit"
                       THEN Append(performed, [user_id |-> f.user_id, type |-> f.gesture_type,
                                               hand |-> f.hand, intensity |-> f.intensity,
                                               timestamp |-> f.t])
                       ELSE performed
       /\ UNCHANGED <<now, ncalls, joined>>

Commands == ncalls.join + ncalls.move + ncalls.gesture + ncalls.toggle

\* any command, in any order, up to `ops` commands in all
NextUpTo(ops) ==
    \/ \E q \in JoinRequests :
           Commands < ops /\ ncalls.join < MaxJoins /\ Join(q)
    \/ \E user_id \in Ids, target \in MoveTargets, rotation_y \in Rotations :
           Commands < ops /\ ncalls.move < MaxMoves /\ Move(user_id, target, rotation_y)
    \/ \E user_id \in Ids, gesture_type \in Kinds, hand \in Hands, intensity \in Intensities :
           Commands < ops /\ ncalls.gesture < MaxGestures
           /\ Gesture(user_id, gesture_type, hand, intensity)
    \/ Commands < ops /\ ncalls.toggle < MaxToggles /\ ToggleRecording
    \/ \E timer \in room.timers : StopSpeaking(timer)

Next == NextUpTo(MaxOps)

NextFlags == NextUpTo(MaxFlagOps)

Spec == Init /\ [][Next]_vars

SpecFlags == InitFlags /\ [][NextFlags]_vars

\* the events a host application logs besides those of the handlers; a chat
\* message is clean, holds one denylist phrase inside a longer word or in
\* capitals, or holds two of them
ChatMessages ==
    { <<"h", "i">>,
      <<"W", "h", "a", "t", "e", "v", "e", "r">>,
      <<"S", "H", "U", "T", " ", "U", "P">>,
      <<"d", "u", "m", "b", " ", "i", "d", "i", "o", "t">> }

LogEvents ==
    {[type |-> "chat", data |-> [user_id |-> "a", message |-> m]] : m \in ChatMessages}
    \cup {[type |-> "chat", data |-> [message |-> <<"H", "a", "t", "e">>]],
          [type |-> "chat", data |-> [user_id |-> "b"]],
          [type |-> "info", data |-> [message |-> <<"d", "u", "m", "b">>]]}

\* commands and logged events, in any order, MaxLogOps of them in all, with
\* the snapshot asked for at any point
MaxLogOps == 3

NextLog ==
    \/ NextUpTo(MaxLogOps - ncalls.log)
    \/ \E event \in LogEvents : Commands + ncalls.log < MaxLogOps /\ LogEvent(event)
    \/ Snapshot

SpecLog == InitFlags /\ [][NextLog]_vars

\* commands and saves, in any order, MaxReadOps of them in all, with the
\* notes and the snapshot asked for at any point
MaxReadOps == 3

NextReads ==
    \/ NextUpTo(MaxReadOps - ncalls.save)
    \/ \E path \in Paths, t \in ReadTimes : Notes(path, t)
    \/ Snapshot
    \/ \E path \in Paths, t \in ReadTimes :
           Commands + ncalls.save < MaxReadOps /\ Save(path, t)

SpecReads == Init /\ [][NextReads]_vars

\* a session in which the participants join first and then only gesture,
\* long enough for the gesture log to pass its cap of 10; a timer fires only
\* when the next command would otherwise come after its due time
MaxSetupJoins == 2

MaxSessionGestures == 11

\* each participant has a gesture of their own in this session
GestureOf(user_id) == IF user_id = "a" THEN "wave" ELSE "dance"

NextGestures ==
    \/ \E q \in JoinRequests :
           ncalls.gesture = 0 /\ ncalls.join < MaxSetupJoins /\ Join(q)
    \/ \E user_id \in Ids, hand \in Hands, intensity \in Intensities :
           ncalls.gesture < MaxSessionGestures
           /\ Gesture(user_id, GestureOf(user_id), hand, intensity)
    \/ \E timer \in room.timers : ~TimersOnTime /\ StopSpeaking(timer)

SpecGestures == Init /\ [][NextGestures]_vars

\* the same long session with the notes asked for at any point of it
NextGestureNotes ==
    \/ NextGestures
    \/ \E path \in Paths : Notes(path, now)

SpecGestureNotes == Init /\ [][NextGestureNotes]_vars

\* the commands with the guarantee of threading.Timer: a timer that was
\* started runs its callback
MaxLiveOps == 4

NextLive == NextUpTo(MaxLiveOps)

SpecLive ==
    /\ Init
    /\ [][NextLive]_vars
    /\ WF_vars(\E timer \in room.timers : StopSpeaking(timer))

\* the positions whose distances are measured: they differ in each
\* coordinate and in the rotation
Positions ==
    {Pos(x, y, z, rotation_y) : x \in {-4, 0, 1}, y \in {0, 2}, z \in {0, 3},
                                rotation_y \in {0, 90}}

NextDistance == \E p \in Positions, q \in Positions : Measure(p, q)

SpecDistance == Init /\ [][NextDistance]_vars

\* the same sessions on a disk that can refuse a write
WriteStages == {"open", "dump"}

NextFailingSaves ==
    \/ NextReads
    \/ \E path \in Paths, t \in ReadTimes, stage \in WriteStages :
           Commands + ncalls.save < MaxReadOps /\ SaveFails(path, t, stage)

SpecFailingSaves == Init /\ [][NextFailingSaves]_vars

\* the handlers on their threads, statement by statement: one participant
\* who joins, moves and gestures on the event loop, the recording toggled
\* and saved and the snapshot read on the web thread, the callbacks on the
\* timer thread; MaxThreadOps handlers are entered in all
MaxThreadOps == 4

Threads == {"loop", "web", "timer"}

ThreadJoinRequests == {q \in JoinRequests : q.name = "Alice"}

ThreadMoveTargets == {target \in MoveTargets : target.x = 1}

ThreadUsers == {"a"}

ThreadKinds == {"wave"}

Entered == Commands + ncalls.save

NextThreads ==
    \/ \E q \in ThreadJoinRequests :
           Entered < MaxThreadOps /\ ncalls.join = 0 /\ EnterJoin(q)
    \/ \E user_id \in ThreadUsers, target \in ThreadMoveTargets, rotation_y \in Rotations :
           Entered < MaxThreadOps /\ EnterMove(user_id, target, rotation_y)
    \/ \E user_id \in ThreadUsers, gesture_type \in ThreadKinds, hand \in Hands,
          intensity \in Intensities :
           Entered < MaxThreadOps /\ EnterGesture(user_id, gesture_type, hand, intensity)
    \/ Entered < MaxThreadOps /\ EnterToggle
    \/ Entered < MaxThreadOps /\ EnterSave
    \/ \E timer \in room.timers : EnterStopSpeaking(timer)
    \/ \E thread \in Threads : Step(thread)
    \/ Snapshot

SpecThreads == Init /\ [][NextThreads]_vars

\* three participants who stand close to one another, joining in any order,
\* and moves that end within 3.0 of both others or of none
MaxProximityOps == 4

ProximityIds == {"a", "b", "c"}

ProximityJoinRequests ==
    { [user_id |-> "a", name |-> "Alice", lang |-> "en", x |-> -4, y |-> 0, z |-> 0],
      [user_id |-> "b", name |-> "Bob",   lang |-> "tr", x |-> 0,  y |-> 0, z |-> 0],
      [user_id |-> "c", name |-> "Carol", lang |-> "en", x |-> -2, y |-> 0, z |-> 0] }

ProximityTargets == {target \in MoveTargets : target.z = 0 /\ target.x \in {-1, 1}}

NextProximity ==
    \/ \E q \in ProximityJoinRequests : Commands < MaxProximityOps /\ Join(q)
    \/ \E user_id \in ProximityIds, target \in ProximityTargets, rotation_y \in Rotations :
           Commands < MaxProximityOps /\ Move(user_id, target, rotation_y)

SpecProximity == Init /\ [][NextProximity]_vars

(* ------------------------- reading the history ------------------------- *)

\* the step is a call of the named command
JoinStep == ncalls'.join = ncalls.join + 1

MoveStep == ncalls'.move = ncalls.move + 1

GestureStep == ncalls'.gesture = ncalls.gesture + 1

ToggleStep == ncalls'.toggle = ncalls.toggle + 1

LogStep == ncalls'.log = ncalls.log + 1

SaveStep == ncalls'.save = ncalls.save + 1

NotesStep == call'.op = "notes"

SnapshotStep == call'.op = "snapshot"

IsPrefix(s, t) == Len(s) <= Len(t) /\ SubSeq(t, 1, Len(s)) = s

\* the room without what the latest call emitted and returned
Persistent(r) == [r EXCEPT !.socketio = <<>>, !.ret = "None"]

Distinct(s) == \A i, j \in 1..Len(s) : i # j => s[i] # s[j]

\* the gestures user_id performed, oldest first, as the snapshot shows a gesture
PerformedBy(user_id) ==
    LET Mine(g) == g.user_id = user_id
        mine == SelectSeq(performed, Mine)
    IN [i \in 1..Len(mine) |->
           [type |-> mine[i].type, hand |-> mine[i].hand,
            intensity |-> mine[i].intensity, timestamp |-> mine[i].timestamp]]

PerformedAll ==
    [i \in 1..Len(performed) |->
        [type |-> performed[i].type, hand |-> performed[i].hand,
         intensity |-> performed[i].intensity, timestamp |-> performed[i].timestamp]]

\* the snapshot's view of a participant
ViewOf(user_id) ==
    LET view == get_room_state_for_web(room).participants
    IN view[CHOOSE i \in 1..Len(view) : view[i].user_id = user_id]

(* ------------------------------- claims -------------------------------- *)

\* C1: a join with an id that is already registered leaves the registry
\* unchanged (the participant keeps name, language, position, speaking flag
\* and recentGestures, participantCount is unchanged) and appends no
\* transcript entry.
C1_DuplicateJoinLeavesRegistry ==
    [][(JoinStep /\ call'.user_id \in DOMAIN room.participants)
        => /\ room'.participants = room.participants
           /\ participant_count(room') = participant_count(room)
           /\ room'.session_transcript = room.session_transcript]_vars

\* C2: as long as the ids passed to join are pairwise distinct, the
\* snapshot's participantCount equals the number of joins performed,
\* whatever moves, gestures and recording toggles are interleaved.
C2_CountEqualsJoins ==
    Distinct(joined) => get_room_state_for_web(room).participant_count = Len(joined)

C2_Witness ==
    /\ Distinct(joined) /\ Len(joined) = 2
    /\ ncalls.move > 0 /\ ncalls.gesture > 0 /\ ncalls.toggle > 0
    /\ get_room_state_for_web(room).participant_count = 2

\* C3: every participant's recentGestures has at most 5 entries and holds
\* exactly the participant's last min(k,5) successful gestures, oldest first.
C3_RecentGesturesAreLastFive ==
    \A user_id \in DOMAIN room.participants :
        /\ Len(ViewOf(user_id).recent_gestures) <= 5
        /\ ViewOf(user_id).recent_gestures = LastN(PerformedBy(user_id), 5)

\* C4: after n successful gestures the snapshot's recentGestures holds the
\* last min(n,10) gestures of the session, in the order they were performed.
C4_SnapshotLastTen ==
    LET view == get_room_state_for_web(room).recent_gestures
        n == Len(performed)
        k == IF n < 10 THEN n ELSE 10
    IN /\ Len(view) = k
       /\ \A i \in 1..k : view[i] = PerformedAll[n - k + i]

C4_Witness ==
    /\ Len(performed) = 11
    /\ \E i, j \in 1..11 : performed[i].user_id = "a" /\ performed[j].user_id = "b"
    /\ Len(get_room_state_for_web(room).recent_gestures) = 10
    /\ get_room_state_for_web(room).recent_gestures[1].timestamp = performed[2].timestamp

\* the notifications of one kind the latest step emitted for the pair
AlertsFor(r, user1, user2) ==
    {i \in 1..Len(r.socketio) :
        /\ r.socketio[i].event = "proximity_alert"
        /\ r.socketio[i].data.user1 = user1
        /\ r.socketio[i].data.user2 = user2}

\* the proximity entries of a transcript for the pair
ProximityEntries(transcript, user1, user2) ==
    {i \in 1..Len(transcript) :
        /\ transcript[i].type = "proximity"
        /\ transcript[i].data.user1 = user1
        /\ transcript[i].data.user2 = user2}

\* the entries the step appended
NewEntries ==
    SubSeq(room'.session_transcript, Len(room.session_transcript) + 1,
           Len(room'.session_transcript))

\* C5: a successful move of A raises a proximity event for (A, B) exactly
\* when A's new position is strictly less than 3.0 from B's position
\* (squared distance below 9); A's previous position is not consulted.
C5_ProximityIffWithinThree ==
    (call.op = "move" /\ room.ret = "True") =>
        \A other \in DOMAIN room.participants \ {call.user_id} :
            AlertsFor(room, room.participants[call.user_id].name,
                      room.participants[other].name) # {}
            <=> SquaredDistance(call.arg, room.participants[other].vr_position) < 9

\* a move that ends at exactly 3.0 from the other participant raised nothing
C5_Witness ==
    /\ call.op = "move" /\ room.ret = "True"
    /\ \E other \in DOMAIN room.participants \ {call.user_id} :
           /\ SquaredDistance(call.arg, room.participants[other].vr_position) = 9
           /\ AlertsFor(room, room.participants[call.user_id].name,
                        room.participants[other].name) = {}

\* C6: each move of A that ends within 3.0 of B appends exactly one
\* proximity transcript entry and emits exactly one proximityAlert for
\* (A, B), also when an earlier move already did so for the same pair.
C6_OneEventPerMoveInRange ==
    [][(MoveStep /\ room'.ret = "True") =>
        \A other \in DOMAIN room.participants \ {call'.user_id} :
            SquaredDistance(call'.arg, room.participants[other].vr_position) < 9 =>
                /\ Cardinality(ProximityEntries(NewEntries,
                       room.participants[call'.user_id].name,
                       room.participants[other].name)) = 1
                /\ Cardinality(AlertsFor(room',
                       room.participants[call'.user_id].name,
                       room.participants[other].name)) = 1]_vars

\* the pair's second proximity event, raised by a later move of the same mover
C6_Witness ==
    /\ call.op = "move" /\ room.ret = "True"
    /\ \E other \in DOMAIN room.participants \ {call.user_id} :
           /\ Cardinality(AlertsFor(room, room.participants[call.user_id].name,
                                    room.participants[other].name)) = 1
           /\ Cardinality(ProximityEntries(room.session_transcript,
                                           room.participants[call.user_id].name,
                                           room.participants[other].name)) = 2

\* C7: a move with an id that is not registered fails and changes nothing:
\* no position, no transcript entry, no proximity event, no notification.
C7_UnknownMoveChangesNothing ==
    [][(MoveStep /\ call'.user_id \notin DOMAIN room.participants) =>
        /\ room'.ret = "False"
        /\ Persistent(room') = Persistent(room)
        /\ room'.socketio = <<>>]_vars

\* an unknown id moved to within range of a registered participant
C7_Witness ==
    /\ call.op = "move" /\ room.ret = "False"
    /\ call.user_id \notin DOMAIN room.participants
    /\ \E other \in DOMAIN room.participants :
           SquaredDistance(call.arg, room.participants[other].vr_position) < 9

\* C8: a gesture with an id that is not registered fails and changes
\* nothing: gesture log, histories, speaking flags, transcript and pending
\* timers are as before and nothing is emitted.
C8_UnknownGestureChangesNothing ==
    [][(GestureStep /\ call'.user_id \notin DOMAIN room.participants) =>
        /\ room'.ret = "False"
        /\ Persistent(room') = Persistent(room)
        /\ room'.socketio = <<>>
        /\ performed' = performed]_vars

C8_Witness ==
    /\ call.op = "gesture" /\ room.ret = "False"
    /\ call.user_id \notin DOMAIN room.participants
    /\ room.gestures # <<>>

\* C9: the room starts Inactive with startedAt unset; the first join makes
\* it Active and sets startedAt; an Active room stays Active and keeps its
\* startedAt under every later step.
C9_ActivationIsOneWay ==
    /\ ~room.is_active /\ room.start_time = None
    /\ [][/\ (~room.is_active /\ JoinStep) =>
                (room'.is_active /\ room'.start_time = Some(now'))
          /\ (~room.is_active /\ ~JoinStep) =>
                (~room'.is_active /\ room'.start_time = None)
          /\ room.is_active =>
                (room'.is_active /\ room'.start_time = room.start_time)]_vars

\* a later join, after a toggle, left the first join's startedAt in place
C9_Witness ==
    /\ call.op = "join" /\ Len(joined) >= 2 /\ ncalls.toggle > 0
    /\ room.is_active /\ room.start_time = Some(1) /\ now > 2

LoggedEntry == [timestamp |-> now, type |-> call.arg.type, data |-> call.arg.data]

\* C11: a logged event adds exactly one entry to the transcript, the event
\* itself, when note taking, moderation or recording is enabled; when all
\* three are disabled the call changes neither the transcript nor the
\* moderation log nor anything else, and emits nothing.
C11_LogEventAppendsOrNothing ==
    [][LogStep =>
          IF room.ai_note_taking_enabled \/ room.ai_moderation_enabled
                \/ room.video_recording_enabled
          THEN room'.session_transcript = Append(room.session_transcript, LoggedEntry')
          ELSE /\ room'.session_transcript = room.session_transcript
               /\ room'.moderation_log = room.moderation_log
               /\ Persistent(room') = Persistent(room)
               /\ room'.socketio = <<>>]_vars

\* an event is written while recording alone is enabled
C11_Witness ==
    /\ call.op = "log"
    /\ ~room.ai_note_taking_enabled /\ ~room.ai_moderation_enabled
    /\ room.video_recording_enabled
    /\ room.session_transcript # <<>>
    /\ room.session_transcript[Len(room.session_transcript)] = LoggedEntry

\* C12: the transcript only grows at its end: across a join, a move, a
\* gesture, a recording toggle, the notes, the snapshot and a save, the
\* transcript before the step is a prefix of the transcript after it.
C12_TranscriptAppendOnly ==
    [][IsPrefix(room.session_transcript, room'.session_transcript)]_vars

\* recording is switched on over a transcript that already holds entries,
\* after a save
C12_Witness ==
    /\ call.op = "toggle"
    /\ room.video_recording_enabled
    /\ room.disk # <<>>
    /\ Len(room.session_transcript) >= 2
    /\ room.session_transcript[1].type = "user_joined"

\* the two characters are the same letter, whatever their case
SameLetter(c, d) ==
    \/ c = d
    \/ \E k \in 1..Len(UpperCase) : {c, d} = {UpperCase[k], LowerCase[k]}

\* the message holds a denylist phrase as a substring, case ignored
HasPhrase(message) ==
    \E word \in toxic_keywords :
        \E i \in 0..(Len(message) - Len(word)) :
            \A j \in 1..Len(word) : SameLetter(message[i + j], word[j])

\* the event of the step is a chat message that holds a denylist phrase
ToxicChatStep ==
    /\ LogStep
    /\ call'.arg.type = "chat"
    /\ "message" \in DOMAIN call'.arg.data
    /\ HasPhrase(call'.arg.data.message)

ModerationAlerts(r) == {i \in 1..Len(r.socketio) : r.socketio[i].event = "moderation_alert"}

\* C13: a chat event whose message holds at least one denylist phrase, in
\* any case and anywhere in the message, logged while moderation is enabled,
\* adds exactly one record with action "warning" and reason "Toxic language
\* detected" to the moderation log and emits exactly one moderation_alert,
\* however many phrases the message holds.
C13_OneWarningPerToxicChat ==
    [][(ToxicChatStep /\ room.ai_moderation_enabled) =>
          /\ Len(room'.moderation_log) = Len(room.moderation_log) + 1
          /\ IsPrefix(room.moderation_log, room'.moderation_log)
          /\ room'.moderation_log[Len(room'.moderation_log)].action = "warning"
          /\ room'.moderation_log[Len(room'.moderation_log)].reason = "Toxic language detected"
          /\ Cardinality(ModerationAlerts(room')) = 1]_vars

\* a message with two phrases, and one in capitals, have been moderated
C13_Witness ==
    /\ call.op = "log"
    /\ room.ai_moderation_enabled
    /\ call.arg.data = [user_id |-> "a",
                        message |-> <<"d", "u", "m", "b", " ", "i", "d", "i", "o", "t">>]
    /\ Len(room.moderation_log) = 2
    /\ room.moderation_log[1].message = <<"s", "h", "u", "t", " ", "u", "p">>
    /\ room.moderation_log[2].timestamp = now
    /\ Cardinality(ModerationAlerts(room)) = 1

\* C14: the moderation log changes only in a step that logs a chat event
\* holding a denylist phrase while moderation is enabled; events of another
\* type, chat events without such a phrase, events logged while moderation
\* is disabled, and every other operation leave it as it is.
C14_ModerationLogChangesOnlyOnToxicChat ==
    [][room'.moderation_log # room.moderation_log =>
          (ToxicChatStep /\ room.ai_moderation_enabled)]_vars

\* a chat message with a denylist phrase is written to the transcript of a
\* room without moderation, and the moderation log stays empty
C14_Witness ==
    /\ call.op = "log"
    /\ call.arg.type = "chat"
    /\ "message" \in DOMAIN call.arg.data
    /\ HasPhrase(call.arg.data.message)
    /\ ~room.ai_moderation_enabled
    /\ room.session_transcript # <<>>
    /\ room.session_transcript[Len(room.session_transcript)] = LoggedEntry
    /\ room.moderation_log = <<>>

\* the notes the latest call handed out, returned by the route or emitted
\* by the socket handler
LatestNotes == IF call.arg.path = "route" THEN room.ret ELSE room.socketio[1].data

\* C15: generating the notes changes nothing in the room, and a second call
\* that follows a first one with no operation between them hands out the
\* same key_moments and the same gesture_count.
C15_NotesArePure ==
    [][NotesStep =>
          /\ Persistent(room') = Persistent(room)
          /\ call.op = "notes" =>
                 /\ LatestNotes'.key_moments = LatestNotes.key_moments
                 /\ LatestNotes'.gesture_count = LatestNotes.gesture_count]_vars

\* the notes are emitted for a session in which Alice has waved
C15_Witness ==
    /\ call.op = "notes"
    /\ call.arg.path = "socket"
    /\ call.arg.t = CommandTime
    /\ LatestNotes.gesture_count >= 1
    /\ LatestNotes.key_moments[1] = <<"Alice", "performed", "wave">>

\* the gesture entries of a transcript, oldest first
GestureEntries(transcript) == SelectSeq(transcript, IsGestureEntry)

\* how many gesture entries the notes show
Shown(n) == IF n < 10 THEN n ELSE 10

\* C16: with g gesture entries in the transcript the notes show the latest
\* min(g, 10) of them in transcript order, report gesture_count = g, and g,
\* hence the count successive calls report, never decreases.
C16_NotesShowLastTenGestures ==
    [][/\ Len(GestureEntries(room'.session_transcript))
             >= Len(GestureEntries(room.session_transcript))
       /\ NotesStep =>
              LET entries == GestureEntries(room.session_transcript)
                  g == Len(entries)
                  notes == LatestNotes'
              IN /\ notes.gesture_count = g
                 /\ g = Len(performed)
                 /\ Len(notes.key_moments) = Shown(g)
                 /\ \A i \in 1..Shown(g) :
                        /\ notes.key_moments[i] =
                               <<entries[g - Shown(g) + i].data.user, "performed",
                                 entries[g - Shown(g) + i].data.gesture>>
                        /\ notes.key_moments[i][3] = performed[g - Shown(g) + i].type]_vars

\* the notes of a session with 11 gestures start at the second one
C16_Witness ==
    /\ call.op = "notes"
    /\ LatestNotes.gesture_count = 11
    /\ Len(LatestNotes.key_moments) = 10
    /\ performed[1].type = "wave"
    /\ performed[2].type = "dance"
    /\ LatestNotes.key_moments[1][3] = "dance"

\* the entries of type event_type in a transcript
EntriesOf(transcript, event_type) ==
    {i \in 1..Len(transcript) : transcript[i].type = event_type}

\* C17: a recording toggle flips video_recording_enabled, so that two
\* toggles in a row restore it. Switching on sets recording_start_time and,
\* only when the transcript was empty, puts one info entry at its head;
\* switching off leaves recording_start_time and the entries already in the
\* transcript as they were.
C17_ToggleFlipsAndSeeds ==
    [][ToggleStep =>
          /\ room'.video_recording_enabled = ~room.video_recording_enabled
          /\ IsPrefix(room.session_transcript, room'.session_transcript)
          /\ IF room'.video_recording_enabled
             THEN /\ room'.recording_start_time = Some(now')
                  /\ IF room.session_transcript = <<>>
                     THEN /\ EntriesOf(room'.session_transcript, "info") = {1}
                          /\ room'.session_transcript[1].data.message = "Recording started"
                     ELSE EntriesOf(room'.session_transcript, "info")
                              = EntriesOf(room.session_transcript, "info")
             ELSE /\ room'.recording_start_time = room.recording_start_time
                  /\ EntriesOf(room'.session_transcript, "info")
                         = EntriesOf(room.session_transcript, "info")]_vars

\* recording was switched on over an empty transcript although somebody had
\* joined, and is now switched off again
C17_Witness ==
    /\ call.op = "toggle"
    /\ ~room.video_recording_enabled
    /\ room.recording_start_time # None
    /\ room.participants # <<>>
    /\ room.session_transcript # <<>>
    /\ room.session_transcript[1].type = "info"

\* the notifications of a recording toggle: recording_update with the new
\* value, then room_update
ToggleNotifies ==
    /\ Len(room'.socketio) = 2
    /\ room'.socketio[1].event = "recording_update"
    /\ room'.socketio[1].data.is_recording = room'.video_recording_enabled
    /\ room'.socketio[2].event = "room_update"

\* the entries the toggle adds after the seeded head, if any
ToggleEntries ==
    LET before == IF room.session_transcript = <<>> /\ room'.video_recording_enabled
                  THEN 1 ELSE Len(room.session_transcript)
    IN SubSeq(room'.session_transcript, before + 1, Len(room'.session_transcript))

SavedFile == room.disk[RecordingFile(call.arg.t)]

\* C19: a save made while the transcript is empty writes a transcript of
\* exactly one placeholder entry of type info, through the route as through
\* the socket handler, and leaves the transcript of the room empty; a save
\* made while the transcript is not empty writes the transcript entry for
\* entry.
C19_SaveWritesPlaceholderWhenEmpty ==
    [][SaveStep =>
          /\ room'.session_transcript = room.session_transcript
          /\ IF room.session_transcript = <<>>
             THEN /\ Len(SavedFile'.transcript) = 1
                  /\ SavedFile'.transcript[1].type = "info"
                  /\ SavedFile'.transcript[1].data.message = "No events recorded yet"
             ELSE SavedFile'.transcript = room.session_transcript]_vars

\* the socket handler has saved a room in which a move was refused and
\* nothing is recorded yet
C19_Witness ==
    /\ call.op = "save"
    /\ call.arg.path = "socket"
    /\ ncalls.move >= 1
    /\ room.session_transcript = <<>>
    /\ Len(SavedFile.transcript) = 1
    /\ SavedFile.transcript[1].type = "info"

\* C20: the snapshot is a read: it changes nothing in the room and emits
\* nothing, its participant_count, moderation_count and transcript_count
\* are the sizes of the registry, of the moderation log and of the
\* transcript, and its video_recording_enabled and is_active are the flags
\* of the room.
C20_SnapshotIsPureRead ==
    [][SnapshotStep =>
          /\ Persistent(room') = Persistent(room)
          /\ room'.socketio = <<>>
          /\ room'.ret.participant_count = Cardinality(DOMAIN room.participants)
          /\ room'.ret.moderation_count = Len(room.moderation_log)
          /\ room'.ret.transcript_count = Len(room.session_transcript)
          /\ room'.ret.video_recording_enabled = room.video_recording_enabled
          /\ room'.ret.is_active = room.is_active]_vars

\* the snapshot of an active, recording room with one participant and one
\* moderation record
C20_Witness ==
    /\ call.op = "snapshot"
    /\ room.ret.is_active
    /\ room.ret.video_recording_enabled
    /\ room.ret.participant_count = 1
    /\ room.ret.moderation_count = 1
    /\ room.ret.transcript_count = 3

\* the places of the notifications of the named event among those of the
\* latest step
Emitted(r, event) == {i \in 1..Len(r.socketio) : r.socketio[i].event = event}

\* the latest step is the stop-speaking callback of user_id, the participant
\* is not speaking and the observers have been told so
StoppedSpeaking(user_id) ==
    /\ call.op = "stop_speaking"
    /\ call.user_id = user_id
    /\ user_id \in DOMAIN room.participants
    /\ ~room.participants[user_id].is_speaking
    /\ \E i \in Emitted(room, "speaking_update") :
           room.socketio[i].data = [user_id |-> user_id, is_speaking |-> FALSE]

\* C21: a successful gesture sets is_speaking of its performer before the
\* gesture is notified (speaking_update with True comes before
\* gesture_performed, and the room_update that follows shows the performer
\* speaking), and it is always followed by a stop-speaking callback after
\* which the performer is not speaking and speaking_update with False has
\* been emitted.
C21_SpeakingStartsAndStops ==
    /\ [][(GestureStep /\ room'.ret = "True") =>
              /\ room'.participants[call'.user_id].is_speaking
              /\ \E i \in Emitted(room', "speaking_update") :
                     /\ room'.socketio[i].data = [user_id |-> call'.user_id, is_speaking |-> TRUE]
                     /\ \A j \in Emitted(room', "gesture_performed") : i < j
              /\ Emitted(room', "gesture_performed") # {}
              /\ \E j \in Emitted(room', "room_update") :
                     \E k \in 1..Len(room'.socketio[j].data.participants) :
                         /\ room'.socketio[j].data.participants[k].user_id = call'.user_id
                         /\ room'.socketio[j].data.participants[k].is_speaking]_vars
    /\ \A user_id \in Ids :
           (call.op = "gesture" /\ call.user_id = user_id /\ room.ret = "True")
               ~> StoppedSpeaking(user_id)

\* the callback of a gesture of a has run
C21_Witness == StoppedSpeaking("a") /\ Len(performed) >= 1 /\ room.timers = {}

\* C22: every successful gesture starts a timer of its own, due 2.0 time
\* units later, and cancels none; a callback clears is_speaking of the
\* participant it was started for whatever other timers of that participant
\* are pending. So of two gestures less than 2.0 apart the timer of the
\* first clears the flag less than 2.0 after the second has set it.
C22_TimersAreIndependent ==
    [][/\ (GestureStep /\ room'.ret = "True") =>
              /\ room.timers \subseteq room'.timers
              /\ \E tm \in room'.timers \ room.timers :
                     /\ room'.timers = room.timers \cup {tm}
                     /\ tm.user_id = call'.user_id
                     /\ tm.due = now' + 2
       /\ (call'.op = "stop_speaking" /\ call'.arg \in room.timers) =>
              /\ room'.timers = room.timers \ {call'.arg}
              /\ (/\ call'.user_id \in DOMAIN room.participants
                  /\ room.participants[call'.user_id].join_time = call'.arg.join_time)
                     => ~room'.participants[call'.user_id].is_speaking]_vars

\* the callback of an earlier gesture of a has cleared is_speaking while the
\* timer of a later gesture of a, performed less than 2.0 ago, is pending
C22_Witness ==
    /\ call.op = "stop_speaking"
    /\ call.user_id = "a"
    /\ ~room.participants["a"].is_speaking
    /\ \E tm \in room.timers :
           /\ tm.user_id = "a"
           /\ tm.join_time = room.participants["a"].join_time
           /\ tm.join_time = call.arg.join_time
           /\ now < tm.due
           /\ \E i \in 1..Len(performed) :
                  performed[i].user_id = "a" /\ performed[i].timestamp = tm.due - 2

\* C28: the distance of p and q is the distance of q and p, the distance of
\* two positions with the same x, y and z is 0, and the distance is the
\* Euclidean distance of the coordinates, whatever the rotations are.
C28_DistanceIsSymmetric ==
    call.op = "distance" =>
        LET p == call.arg[1]
            q == call.arg[2]
            sq == Scale * Scale * ((p.x - q.x) * (p.x - q.x) + (p.y - q.y) * (p.y - q.y)
                                   + (p.z - q.z) * (p.z - q.z))
        IN /\ room.ret = distance_to(q, p)
           /\ (p.x = q.x /\ p.y = q.y /\ p.z = q.z) => room.ret = 0
           /\ room.ret * room.ret <= sq
           /\ sq < (room.ret + 1) * (room.ret + 1)

\* the distance 5.0 of two positions that differ in x, in z and in rotation
C28_Witness ==
    /\ call.op = "distance"
    /\ call.arg[1] = Pos(-4, 0, 0, 0)
    /\ call.arg[2] = Pos(0, 0, 3, 90)
    /\ room.ret = 5 * Scale

\* what an observer keeps of the room: who is there, where, and who speaks
RoomView(r) ==
    [user_id \in DOMAIN r.participants |->
        [position |-> [x |-> r.participants[user_id].vr_position.x,
                       y |-> r.participants[user_id].vr_position.y,
                       z |-> r.participants[user_id].vr_position.z],
         is_speaking |-> r.participants[user_id].is_speaking]]

\* the view after one notification: room_update replaces it, position_update
\* and speaking_update change one participant of it, the others leave it
Observe(view, notification) ==
    LET data == notification.data
    IN IF notification.event = "room_update"
       THEN [user_id \in {data.participants[i].user_id : i \in 1..Len(data.participants)} |->
                LET p == data.participants[CHOOSE i \in 1..Len(data.participants) :
                                              data.participants[i].user_id = user_id]
                IN [position |-> p.position, is_speaking |-> p.is_speaking]]
       ELSE IF notification.event = "position_update" /\ data.user_id \in DOMAIN view
       THEN [view EXCEPT ![data.user_id].position = data.position]
       ELSE IF notification.event = "speaking_update" /\ data.user_id \in DOMAIN view
       THEN [view EXCEPT ![data.user_id].is_speaking = data.is_speaking]
       ELSE view

\* the view after the notifications from the i-th on
RECURSIVE ObserveAll(_, _, _)
ObserveAll(view, notifications, i) ==
    IF i > Len(notifications) THEN view
    ELSE ObserveAll(Observe(view, notifications[i]), notifications, i + 1)

\* C29: an observer whose view agrees with the room before an operation, and
\* who applies the notifications of the operation in the order they are
\* emitted, has a view that agrees with the room after it: the same
\* participants, positions and speaking flags. The stop-speaking callback
\* is one of the operations.
C29_ObserverFollowsRoom ==
    [][ObserveAll(RoomView(room), room'.socketio, 1) = RoomView(room')]_vars

\* a callback has run that was started for a Participant object registered
\* anew since: the observer is told that a stopped speaking, and then, by
\* the room_update, that a is speaking
C29_Witness ==
    /\ call.op = "stop_speaking"
    /\ call.user_id = "a"
    /\ room.participants["a"].join_time # call.arg.join_time
    /\ room.participants["a"].is_speaking
    /\ room.socketio[1].data = [user_id |-> "a", is_speaking |-> FALSE]
    /\ Len(room.socketio) = 2

\* the room without the latest notifications, the returned value and the disk
RoomObject(r) == [Persistent(r) EXCEPT !.disk = <<>>]

\* the caller of the latest save has an error in place of a file name: the
\* HTTP caller from the server, which answers a raised exception with an
\* error status, the socket caller by a save_recording_response
ErrorAnswered ==
    IF call.arg.path = "route" THEN room.ret = "OSError"
    ELSE \E i \in Emitted(room, "save_recording_response") :
             "error" \in DOMAIN room.socketio[i].data

\* C27: when the write of the recording file fails, the caller of the save
\* is answered with an error and not with a file name, and the room is as it
\* was.
C27_FailedSaveIsAnswered ==
    [][call'.op = "save_failed" =>
          /\ ErrorAnswered'
          /\ RoomObject(room') = RoomObject(room)]_vars

\* the thread is inside a mutating handler, has done the first of its
\* writes and has not finished
PartWay(thread) ==
    /\ thread \in DOMAIN room.threads
    /\ room.threads[thread].op \in {"join", "move", "gesture", "toggle"}
    /\ room.threads[thread].pc \notin {"register", "assign", "append", "flip"}

\* C23: the stop-speaking callback writes is_speaking only while no join,
\* move, gesture or recording toggle is part-way through its updates.
C23_CallbackWritesAlone ==
    [][(call'.op = "step" /\ call'.user_id = "timer" /\ call'.arg.pc = "clear") =>
          (~PartWay("loop") /\ ~PartWay("web"))]_vars

\* C24: in no reachable state are two mutating operations part-way through
\* their updates: a coroutine of the event loop and the toggle_recording
\* handler of the web thread exclude each other.
C24_MutatingOperationsExclusive == ~(PartWay("loop") /\ PartWay("web"))

\* the positions a participant is ever given as a whole
WholePositions ==
    {[x |-> q.x, y |-> q.y, z |-> q.z] : q \in JoinRequests}
    \cup {[x |-> target.x, y |-> target.y, z |-> target.z] : target \in MoveTargets}

\* the gesture a perform_gesture in progress is adding, as a snapshot shows it
GestureInProgress ==
    [type |-> room.threads["loop"].gesture_type, hand |-> room.threads["loop"].hand,
     intensity |-> room.threads["loop"].intensity, timestamp |-> room.threads["loop"].t]

Shows(gestures, g) == \E i \in 1..Len(gestures) : gestures[i] = g

\* C25: a snapshot read while a gesture is running shows the gesture either in
\* the global recent_gestures and in the recent_gestures of its performer, or
\* in neither; no snapshot shows a participant history longer than 5 or a
\* position made of coordinates of two positions.
C25_SnapshotIsConsistent ==
    call.op = "snapshot" =>
        LET view == room.ret
        IN /\ ("loop" \in DOMAIN room.threads /\ room.threads["loop"].op = "gesture") =>
                  \A k \in 1..Len(view.participants) :
                      view.participants[k].user_id = room.threads["loop"].user_id =>
                          (Shows(view.recent_gestures, GestureInProgress)
                              <=> Shows(view.participants[k].recent_gestures, GestureInProgress))
           /\ \A k \in 1..Len(view.participants) :
                  /\ Len(view.participants[k].recent_gestures) <= 5
                  /\ view.participants[k].position \in WholePositions

\* the names in the user_joined entries of a saved transcript, the latest
\* entry of each user_id: a user who joins again replaces the participant
JoinedNames(transcript) ==
    {transcript[i].data.name :
        i \in {i \in EntriesOf(transcript, "user_joined") :
                  \A j \in EntriesOf(transcript, "user_joined") :
                      transcript[j].data.user_id = transcript[i].data.user_id => j <= i}}

\* C26: every saved recording is the room at one instant: the names in the
\* user_joined entries of its transcript are the names of its participants
\* list, also when a join runs while the file is being put together.
C26_RecordingIsOneInstant ==
    \A file \in DOMAIN room.disk :
        JoinedNames(room.disk[file].transcript)
            = {room.disk[file].participants[i] : i \in 1..Len(room.disk[file].participants)}

\* C30: no step removes an entry from the transcript, also when a recording
\* toggle runs together with a join, a move or a gesture: every entry of the
\* transcript before the step is in the transcript after it.
C30_NoEntryLost ==
    [][\A i \in 1..Len(room.session_transcript) :
           \E j \in 1..Len(room'.session_transcript) :
               room'.session_transcript[j] = room.session_transcript[i]]_vars

\* the ids of the participants, other than the mover, who stand within 3.0
\* of the target of the move, in the order of the registry before the move
InRange(r, user_id, target) ==
    LET Near(other_id) ==
            /\ other_id # user_id
            /\ SquaredDistance(target, r.participants[other_id].vr_position) < 9
    IN SelectSeq(r.order, Near)

\* C31: a successful move appends its position_update entry first and then
\* one proximity entry for each other participant in range, in the order of
\* the registry; it emits one proximity_alert for each of them in the same
\* order and its position_update notification after all of them.
C31_MoveOrder ==
    [][(MoveStep /\ room'.ret = "True") =>
          LET others == InRange(room, call'.user_id, call'.arg)
              n == Len(others)
          IN /\ Len(NewEntries) = n + 1
             /\ NewEntries[1].type = "position_update"
             /\ \A i \in 1..n :
                    /\ NewEntries[i + 1].type = "proximity"
                    /\ NewEntries[i + 1].data.user2 = room.participants[others[i]].name
             /\ Len(room'.socketio) = n + 1
             /\ \A i \in 1..n :
                    /\ room'.socketio[i].event = "proximity_alert"
                    /\ room'.socketio[i].data.user2 = room.participants[others[i]].name
             /\ room'.socketio[n + 1].event = "position_update"]_vars

\* the mover ended within 3.0 of two others, of whom the one registered
\* later has the id that sorts first
C31_Witness ==
    /\ call.op = "move" /\ room.ret = "True"
    /\ Len(room.socketio) = 3
    /\ room.socketio[1].data.user2 = "Carol"
    /\ room.socketio[2].data.user2 = "Bob"
    /\ room.session_transcript[Len(room.session_transcript)].data.user2 = "Bob"

\* C32: the notifications of a join are emitted after the registry, the
\* active flag and the transcript are updated: the room_update of the join is
\* its first notification and carries the new participant, is_active true and
\* a transcript_count that counts the user_joined entry of the join.
C32_JoinNotifiesLast ==
    [][JoinStep =>
          LET view == room'.socketio[1].data
          IN /\ Len(room'.socketio) = 2
             /\ room'.socketio[1].event = "room_update"
             /\ room'.socketio[2].event = "user_joined"
             /\ \E k \in 1..Len(view.participants) :
                    /\ view.participants[k].user_id = call'.arg.user_id
                    /\ view.participants[k].name = call'.arg.name
             /\ view.participant_count = Cardinality(DOMAIN room'.participants)
             /\ view.is_active
             /\ room'.session_transcript[Len(room'.session_transcript)].type = "user_joined"
             /\ view.transcript_count = Len(room.session_transcript) + 1
             /\ view.transcript_count = Len(room'.session_transcript)]_vars

\* the join that activates the room: its room_update shows the room active
\* with one participant and one transcript entry
C32_Witness ==
    /\ call.op = "join" /\ Len(joined) = 1
    /\ room.socketio[1].event = "room_update"
    /\ room.socketio[1].data.is_active
    /\ room.socketio[1].data.participant_count = 1
    /\ room.socketio[1].data.transcript_count = 1

\* the elements of s from the i-th on occur in t from the j-th on, in the order of s
RECURSIVE OccursInOrder(_, _, _, _)
OccursInOrder(s, t, i, j) ==
    IF i > Len(s) THEN TRUE
    ELSE IF j > Len(t) THEN FALSE
    ELSE IF s[i] = t[j] THEN OccursInOrder(s, t, i + 1, j + 1)
    ELSE OccursInOrder(s, t, i, j + 1)

\* C33: in every state between operations, the gestures in the
\* recent_gestures of any participant all occur in the gesture log of the
\* room, in the same relative order.
C33_HistoriesWithinLog ==
    \A user_id \in DOMAIN room.participants :
        OccursInOrder(room.participants[user_id].recent_gestures, room.gestures, 1, 1)

\* a full history of five beside a log of eleven gestures of two performers
C33_Witness ==
    /\ Len(room.gestures) = 11
    /\ \E user_id \in DOMAIN room.participants :
           /\ Len(room.participants[user_id].recent_gestures) = 5
           /\ room.participants[user_id].recent_gestures[1] # room.gestures[7]
           /\ room.participants[user_id].recent_gestures[5] # room.gestures[11]

\* C34: a successful move changes the position of the mover and appends to
\* the transcript, and nothing else: the other positions, every
\* recent_gestures and speaking flag, the gesture log, the membership of the
\* registry, the active flag and the recording flag are as before.
C34_MoveFrame ==
    [][(MoveStep /\ room'.ret = "True") =>
          /\ room'.participants =
                 [room.participants EXCEPT ![call'.user_id].vr_position = call'.arg]
          /\ room'.order = room.order
          /\ room'.gestures = room.gestures
          /\ room'.is_active = room.is_active
          /\ room'.start_time = room.start_time
          /\ room'.video_recording_enabled = room.video_recording_enabled
          /\ room'.recording_start_time = room.recording_start_time
          /\ room'.timers = room.timers
          /\ IsPrefix(room.session_transcript, room'.session_transcript)
          /\ Len(room'.session_transcript) > Len(room.session_transcript)]_vars

\* a participant who is speaking, with a gesture in the history, has moved
\* beside another while recording is on
C34_Witness ==
    /\ call.op = "move" /\ room.ret = "True"
    /\ room.participants[call.user_id].is_speaking
    /\ room.participants[call.user_id].recent_gestures # <<>>
    /\ room.participants[call.user_id].vr_position = call.arg
    /\ Cardinality(DOMAIN room.participants) = 2
    /\ room.video_recording_enabled

\* the notifications of one event the latest step emitted
Emissions(r, event) == {i \in 1..Len(r.socketio) : r.socketio[i].event = event}

\* C35: a successful gesture emits exactly one gesture_performed, whether or
\* not another participant stands within 5.0 of the performer; the loop over
\* the participants in that range emits nothing and logs nothing, so that the
\* step has its three notifications and its one gesture entry.
C35_OneGesturePerformed ==
    [][(GestureStep /\ room'.ret = "True") =>
          /\ Cardinality(Emissions(room', "gesture_performed")) = 1
          /\ Len(room'.socketio) = 3
          /\ room'.socketio[1].event = "speaking_update"
          /\ room'.socketio[2].event = "gesture_performed"
          /\ room'.socketio[3].event = "room_update"
          /\ Len(NewEntries) = 1
          /\ NewEntries[1].type = "gesture"]_vars

\* a gesture performed with another participant less than 5.0 away
C35_Witness ==
    /\ call.op = "gesture" /\ room.ret = "True"
    /\ \E other \in DOMAIN room.participants \ {call.user_id} :
           SquaredDistance(room.participants[call.user_id].vr_position,
                           room.participants[other].vr_position) < 25
    /\ Cardinality(Emissions(room, "gesture_performed")) = 1

\* the kinds that have an entry in gesture_reactions
KnownKinds == {"wave", "thumbs_up", "clap", "point", "peace"}

\* C36: a gesture of a kind without an entry in gesture_reactions, by a
\* registered participant, succeeds as a known one does: it is appended to
\* the gesture log and to the history of its performer with its kind as
\* given, one gesture entry is logged, and the reaction in the entry and in
\* the notification is the kind itself.
C36_UnknownKindPassesThrough ==
    [][(/\ GestureStep
        /\ call'.user_id \in DOMAIN room.participants
        /\ call'.arg.gesture_type \notin KnownKinds) =>
          LET kind == call'.arg.gesture_type
              history == room'.participants[call'.user_id].recent_gestures
          IN /\ room'.ret = "True"
             /\ Len(room'.gestures) = Len(room.gestures) + 1
             /\ room'.gestures[Len(room'.gestures)].gesture_type = kind
             /\ history # <<>>
             /\ history[Len(history)] = room'.gestures[Len(room'.gestures)]
             /\ Len(NewEntries) = 1
             /\ NewEntries[1].type = "gesture"
             /\ NewEntries[1].data.gesture = kind
             /\ NewEntries[1].data.reaction = kind
             /\ \A i \in Emissions(room', "gesture_performed") :
                    /\ room'.socketio[i].data.gesture = kind
                    /\ room'.socketio[i].data.reaction = kind
             /\ Emissions(room', "gesture_performed") # {}
             /\ room'.participants[call'.user_id].is_speaking]_vars

\* a gesture of the kind "dance" has succeeded
C36_Witness ==
    /\ call.op = "gesture" /\ room.ret = "True"
    /\ call.arg.gesture_type = "dance"
    /\ room.gestures[Len(room.gestures)].gesture_type = "dance"
    /\ room.session_transcript[Len(room.session_transcript)].data.reaction = "dance"

\* C37: no step removes a participant: across a join, a move, a gesture, a
\* recording toggle, the callback of a timer, the notes, the snapshot and a
\* save, every registered id stays registered and the participant count of
\* the snapshot does not decrease.
C37_RegistryOnlyGrows ==
    [][/\ DOMAIN room.participants \subseteq DOMAIN room'.participants
       /\ get_room_state_for_web(room').participant_count
              >= get_room_state_for_web(room).participant_count
       /\ \A i \in 1..Len(room.order) : room'.order[i] = room.order[i]]_vars

\* two registered participants, one of them registered a second time
C37_Witness ==
    /\ call.op = "join"
    /\ Len(joined) = 3 /\ ~Distinct(joined)
    /\ DOMAIN room.participants = {"a", "b"}
    /\ get_room_state_for_web(room).participant_count = 2

\* C38: in every state between operations the room is active exactly when
\* the registry holds a participant, and exactly when start_time is set.
C38_ActiveIffOccupied ==
    /\ room.is_active <=> DOMAIN room.participants # {}
    /\ room.is_active <=> room.start_time # None

\* both sides of the equivalence after a recording toggle: the active room
\* with its two participants
C38_Witness ==
    /\ call.op = "toggle"
    /\ room.is_active
    /\ Cardinality(DOMAIN room.participants) = 2
    /\ room.start_time = Some(1)
    /\ now > 2

\* C39: a join runs no proximity check: also when the participant joins less
\* than 3.0 from another, the join appends no proximity entry and emits no
\* proximity_alert; only a move does either.
C39_OnlyMovesRaiseProximity ==
    [][(/\ \A i \in 1..Len(NewEntries) : NewEntries[i].type # "proximity"
        /\ Emissions(room', "proximity_alert") = {})
       \/ MoveStep]_vars

\* a participant has joined less than 3.0 from another and the transcript
\* holds no proximity entry
C39_Witness ==
    /\ call.op = "join"
    /\ \E other \in DOMAIN room.participants \ {call.user_id} :
           SquaredDistance(room.participants[call.user_id].vr_position,
                           room.participants[other].vr_position) < 9
    /\ EntriesOf(room.session_transcript, "proximity") = {}
    /\ Emissions(room, "proximity_alert") = {}

\* C40: under joins, moves, gestures and recording toggles the moderation
\* log stays empty and the moderation_count of the snapshot stays 0: none of
\* them logs an entry of type chat.
C40_ModerationLogStaysEmpty ==
    /\ room.moderation_log = <<>>
    /\ get_room_state_for_web(room).moderation_count = 0
    /\ EntriesOf(room.session_transcript, "chat") = {}
    /\ Emissions(room, "moderation_alert") = {}

\* the four commands have all run with moderation enabled, each leaving its
\* entry in the transcript
C40_Witness ==
    /\ room.ai_moderation_enabled
    /\ ncalls.join > 0 /\ ncalls.move > 0 /\ ncalls.gesture > 0 /\ ncalls.toggle > 0
    /\ EntriesOf(room.session_transcript, "user_joined") # {}
    /\ EntriesOf(room.session_transcript, "position_update") # {}
    /\ EntriesOf(room.session_transcript, "gesture") # {}
    /\ EntriesOf(room.session_transcript, "recording_toggle") # {}
    /\ room.moderation_log = <<>>

====
